---- MODULE Spec2Model ----
(***************************************************************************)
(* Argument-shape inference of vite-plugin-fluent: the declaration         *)
(* generator walks every message and attribute of a parsed Fluent          *)
(* resource with ExpressionVisitor and emits the ResourceMessageArgs type  *)
(* and the FormatMessage signatures derived from it.                       *)
(***************************************************************************)
EXTENDS Integers, Sequences, FiniteSets, TLC

\* ------------------------------------------------------------ bounds
\* Weight budget of the pattern tree of a single-message resource.
MaxNodes == 6
\* Number of addressable entries (messages, attributes, terms) of a
\* multi-entry resource.
MaxEntries == 3

\* The number of transform cycles of the plugin that may be in flight at once.
MaxCycles == 2

\* ------------------------------------------------------------ syntax tree
\* Names are sequences of characters, so that "<message>.<attribute>" is a
\* real concatenation in which the dot can be found again.
VarNames == {<<"x">>, <<"n">>}
MessageNames == {<<"m">>, <<"g">>}
AttributeNames == {<<"c">>, <<"o">>}

Null == [type |-> "null"]
Identifier(name) == [type |-> "Identifier", name |-> name]
NumberLiteral(value) == [type |-> "NumberLiteral", value |-> value]
TextElement == [type |-> "TextElement"]
Placeable(expression) == [type |-> "Placeable", expression |-> expression]
Pattern(elements) == [type |-> "Pattern", elements |-> elements]
VariableReference(name) == [type |-> "VariableReference", id |-> Identifier(name)]
TermReference(name) ==
  [type |-> "TermReference", id |-> Identifier(name), attribute |-> Null,
   arguments |-> Null]
FluentStringLiteral(value) == [type |-> "StringLiteral", value |-> value]
MessageReference(name) ==
  [type |-> "MessageReference", id |-> Identifier(name)]
CallArguments(positional) ==
  [type |-> "CallArguments", positional |-> positional]
FunctionReference(name, positional) ==
  [type |-> "FunctionReference", id |-> Identifier(name),
   arguments |-> CallArguments(positional)]
Variant(key, value, default) ==
  [type |-> "Variant", key |-> key, value |-> value, default |-> default]
SelectExpression(selector, variants) ==
  [type |-> "SelectExpression", selector |-> selector, variants |-> variants]
Attribute(name, value) ==
  [type |-> "Attribute", id |-> Identifier(name), value |-> value]
Message(name, value, attributes) ==
  [type |-> "Message", id |-> Identifier(name), value |-> value,
   attributes |-> attributes]
Term(name, value) ==
  [type |-> "Term", id |-> Identifier(name), value |-> value, attributes |-> <<>>]
Resource(body) == [type |-> "Resource", body |-> body]

\* Variant keys: identifier keys and number keys.
VariantKeys == {Identifier(<<"o", "n", "e">>), NumberLiteral(<<"1">>)}

\* Mark exactly one variant of a list (of unmarked variants) as the default.
WithDefault(vs, d) ==
  [i \in 1..Len(vs) |-> Variant(vs[i].key, vs[i].value, i = d)]

Number(v) == FunctionReference(<<"N", "U", "M", "B", "E", "R">>, <<VariableReference(v)>>)

\* Inline expressions the parser accepts as a selector, by the weight they
\* add to their select expression.
Selectors ==
  [w \in 0..1 |->
    IF w = 0 THEN {VariableReference(v) : v \in VarNames}
             ELSE {Number(v) : v \in VarNames}]

\* Level k of the tree generator, from the levels below it (gen[j] for
\* j < k): all expressions, patterns (non-empty element lists) and variant
\* lists (non-empty, no default marked yet) of exact weight k.  A text
\* element and a variable reference weigh 1, a message reference and a
\* function call 2; a variant weighs 1 plus its pattern; a select weighs 1
\* plus its variants, plus 1 when its selector is a function call.  The
\* parser merges adjacent text, so a text element is followed by a placeable.
GenLevel(k, gen) ==
  LET leaves == IF k = 1 THEN {VariableReference(v) : v \in VarNames} ELSE {}
      calls == IF k = 2
               THEN {Number(v) : v \in VarNames} \cup {MessageReference(<<"h">>)}
               ELSE {}
      selectsOf(w) ==
        IF k - 1 - w >= 1
        THEN {SelectExpression(s, WithDefault(c[1], c[2])) :
                s \in Selectors[w],
                c \in {c \in gen[k - 1 - w].variants \X (1..MaxNodes) : c[2] <= Len(c[1])}}
        ELSE {}
      expr == leaves \cup calls \cup selectsOf(0) \cup selectsOf(1)
      \* patterns that start with a placeable: first element of weight j
      ppatFrom[j \in 0..(k - 1)] ==
        IF j = 0 THEN {<<Placeable(e)>> : e \in expr}
        ELSE ppatFrom[j - 1]
               \cup {<<Placeable(e)>> \o p : e \in gen[j].expr, p \in gen[k - j].pat}
      ppat == ppatFrom[k - 1]
      \* patterns that start with a text element
      tpat == IF k = 1 THEN {<<TextElement>>}
              ELSE {<<TextElement>> \o p : p \in gen[k - 1].ppat}
      \* variant lists whose first variant has a pattern of weight j
      variantsFrom[j \in 0..(k - 1)] ==
        IF j = 0 THEN {}
        ELSE variantsFrom[j - 1]
               \cup (IF j = k - 1
                     THEN {<<Variant(key, Pattern(p), FALSE)>> :
                             key \in VariantKeys, p \in gen[j].pat}
                     ELSE {<<Variant(key, Pattern(p), FALSE)>> \o rest :
                             key \in VariantKeys, p \in gen[j].pat,
                             rest \in gen[k - 1 - j].variants})
      \* (the variant lists of a select of weight MaxNodes are composed in
      \* InitPattern instead)
      variants == IF k >= MaxNodes - 1 THEN {} ELSE variantsFrom[k - 1]
  IN [expr |-> expr, ppat |-> ppat, pat |-> ppat \cup tpat, variants |-> variants]

RECURSIVE GenUpTo(_, _)
GenUpTo(k, gen) ==
  IF k > MaxNodes - 1 THEN gen
  ELSE CHOOSE all \in {GenUpTo(k + 1, Append(gen, level)) : level \in {GenLevel(k, gen)}} : TRUE

\* Gen[k], k < MaxNodes: the trees of weight k.
Gen == GenUpTo(1, <<>>)

\* ------------------------------------------------------------ types
\* The TypeScript nodes the generator builds with ts.factory.
Undefined == [kind |-> "undefined"]
TypeReferenceNode(name) == [kind |-> "TypeReference", typeName |-> name]
StringLiteral(text) == [kind |-> "StringLiteral", text |-> text]
NumericLiteral(text) == [kind |-> "NumericLiteral", text |-> text]
LiteralTypeNode(literal) == [kind |-> "LiteralType", literal |-> literal]
UnionTypeNode(types) == [kind |-> "UnionType", types |-> types]
TypeLiteralNode(members) == [kind |-> "TypeLiteral", members |-> members]
PropertySignature(name, type) ==
  [kind |-> "PropertySignature", modifiers |-> <<"readonly">>,
   name |-> StringLiteral(name), type |-> type]

FluentVariable == TypeReferenceNode("FluentVariable")
Never == TypeReferenceNode("never")

\* ------------------------------------------------------------ Map
\* A JavaScript Map: entries in insertion order; set() on a present key
\* replaces the value in place.
MapHas(map, key) == \E i \in 1..Len(map) : map[i].key = key
MapGet(map, key) ==
  IF MapHas(map, key)
  THEN map[CHOOSE i \in 1..Len(map) : map[i].key = key].value
  ELSE Undefined
\* Mutant: set() on a present key moves the entry to the end.
MapSet_Reinserts(map, key, value) ==
  Append(SelectSeq(map, LAMBDA entry : entry.key # key),
         [key |-> key, value |-> value])

MapSet(map, key, value) ==
  IF MapHas(map, key)
  THEN [i \in 1..Len(map) |->
          IF map[i].key = key THEN [key |-> key, value |-> value] ELSE map[i]]
  ELSE Append(map, [key |-> key, value |-> value])
MapKeys(map) == {map[i].key : i \in 1..Len(map)}

\* ------------------------------------------------------------ visitor
\* The state of one ExpressionVisitor: the variables Map it fills, its
\* metadata Map, and the nodes whose visit() is still pending (the call
\* stack of the recursive descent, next node first).
VisitorState(variables, metadata, stack) ==
  [variables |-> variables, metadata |-> metadata, stack |-> stack]

\* Mutant: a reference is typed `string`, as the stale doc comment of
\* createResourceMessageArgsType shows it.
VisitVariableReference_StringType(st, node) ==
  LET name == node.id.name
  IN IF ~MapHas(st.variables, name)
     THEN VisitorState(MapSet(st.variables, name, TypeReferenceNode("string")),
                       MapSet(st.metadata, name, [isDiscoveredSelect |-> FALSE]),
                       Tail(st.stack))
     ELSE VisitorState(st.variables, st.metadata, Tail(st.stack))

\* Mutant: the has() check is missing, every reference sets FluentVariable.
VisitVariableReference_NoHasCheck(st, node) ==
  VisitorState(MapSet(st.variables, node.id.name, TypeReferenceNode("FluentVariable")),
               MapSet(st.metadata, node.id.name, [isDiscoveredSelect |-> FALSE]),
               Tail(st.stack))

\* ExpressionVisitor.visitVariableReference
VisitVariableReference(st, node) ==
  LET type == FluentVariable
      name == node.id.name
  IN IF ~MapHas(st.variables, name)
     THEN VisitorState(MapSet(st.variables, name, type),
                       MapSet(st.metadata, name, [isDiscoveredSelect |-> FALSE]),
                       Tail(st.stack))
     ELSE VisitorState(st.variables, st.metadata, Tail(st.stack))

\* Mutant: the default variant is left out of the union.
UnionOfVariants_DefaultDropped(variants) ==
  LET kept == SelectSeq(variants, LAMBDA v : ~v.default)
  IN UnionTypeNode([i \in 1..Len(kept) |->
       LiteralTypeNode(IF kept[i].key.type = "Identifier"
                       THEN StringLiteral(kept[i].key.name)
                       ELSE NumericLiteral(kept[i].key.value))])

\* Mutant: a key that an earlier variant declares is left out of the union.
UnionOfVariants_Deduplicated(variants) ==
  LET first == SelectSeq([i \in 1..Len(variants) |-> i],
                         LAMBDA i : \A j \in 1..(i - 1) : variants[j].key # variants[i].key)
  IN UnionTypeNode([i \in 1..Len(first) |->
       LiteralTypeNode(IF variants[first[i]].key.type = "Identifier"
                       THEN StringLiteral(variants[first[i]].key.name)
                       ELSE NumericLiteral(variants[first[i]].key.value))])

\* The union type visitSelectExpression builds from the variants of a select.
UnionOfVariants(variants) ==
  UnionTypeNode([i \in 1..Len(variants) |->
    LiteralTypeNode(IF variants[i].key.type = "Identifier"
                    THEN StringLiteral(variants[i].key.name)
                    ELSE NumericLiteral(variants[i].key.value))])

\* Mutant: the else-if branch is missing, a select never overrides.
MergeSelect_NoOverride(variables, metadata, name, union) ==
  IF MapGet(variables, name) = Undefined /\ MapGet(metadata, name) = Undefined
  THEN MapSet(variables, name, union)
  ELSE variables

\* Mutant: every select overrides, the last one wins.
MergeSelect_AlwaysOverride(variables, metadata, name, union) ==
  MapSet(variables, name, union)

\* The merge of visitSelectExpression for a select whose selector is the
\* variable `name`: the variables Map after it.
MergeSelect(variables, metadata, name, union) ==
  LET existing == MapGet(variables, name)
      existingMetadata == MapGet(metadata, name)
  IN IF existing = Undefined /\ existingMetadata = Undefined
     THEN MapSet(variables, name, union)
     ELSE IF existingMetadata # Undefined /\ existingMetadata.isDiscoveredSelect = FALSE
     THEN MapSet(variables, name, union)
     ELSE variables

\* Mutant: the variants are not traversed.
SelectChildren_SelectorOnly(node) == <<node.selector>>

\* The nodes visitSelectExpression descends into, in order.
SelectChildren(node) ==
  <<node.selector>> \o [i \in 1..Len(node.variants) |-> node.variants[i].value]

\* Mutant: a select on a function call narrows the variable the call is
\* applied to.
VisitSelectExpression_NarrowsCallArgument(st, node) ==
  LET rest == SelectChildren(node) \o Tail(st.stack)
      name == IF node.selector.type = "VariableReference"
              THEN node.selector.id.name
              ELSE node.selector.arguments.positional[1].id.name
  IN VisitorState(MergeSelect(st.variables, st.metadata, name,
                              UnionOfVariants(node.variants)),
                  MapSet(st.metadata, name, [isDiscoveredSelect |-> TRUE]),
                  rest)

\* ExpressionVisitor.visitSelectExpression
VisitSelectExpression(st, node) ==
  LET rest == SelectChildren(node) \o Tail(st.stack)
  IN IF node.selector.type = "VariableReference"
     THEN LET union == UnionOfVariants(node.variants)
              name == node.selector.id.name
          IN VisitorState(MergeSelect(st.variables, st.metadata, name, union),
                          MapSet(st.metadata, name, [isDiscoveredSelect |-> TRUE]),
                          rest)
     ELSE VisitorState(st.variables, st.metadata, rest)

\* The child nodes Visitor.genericVisit finds in a node, in key order.
GenericChildren(node) ==
  CASE node.type = "Pattern" -> node.elements
    [] node.type = "Placeable" -> <<node.expression>>
    [] node.type = "FunctionReference" -> <<node.id, node.arguments>>
    [] node.type = "CallArguments" -> node.positional
    [] node.type = "MessageReference" -> <<node.id>>
    [] node.type = "TermReference" -> <<node.id>>
    [] OTHER -> <<>>

\* Mutant: a reference to a message, a term or a function is recorded under
\* its name as well.
GenericVisit_RecordsReference(st, node) ==
  IF node.type \in {"MessageReference", "TermReference", "FunctionReference"}
  THEN VisitorState(MapSet(st.variables, node.id.name, FluentVariable),
                    st.metadata, GenericChildren(node) \o Tail(st.stack))
  ELSE VisitorState(st.variables, st.metadata, GenericChildren(node) \o Tail(st.stack))

\* Visitor.genericVisit, for a node the visitor has no method for
GenericVisit(st, node) ==
  VisitorState(st.variables, st.metadata, GenericChildren(node) \o Tail(st.stack))

\* Visitor.visit: dispatch on the node's type.
Visit(st) ==
  LET node == Head(st.stack)
  IN CASE node.type = "VariableReference" -> VisitVariableReference(st, node)
       [] node.type = "SelectExpression" -> VisitSelectExpression(st, node)
       [] OTHER -> GenericVisit(st, node)

\* visitor.visit(object.value), run to completion.
RECURSIVE RunVisitor(_)
RunVisitor(st) == IF st.stack = <<>> THEN st ELSE RunVisitor(Visit(st))

\* ------------------------------------------------------------ declaration
\* Mutant: an entry without variables gets the empty object type.
CreateResourceMessageArgOverload_EmptyObject(name, type) ==
  PropertySignature(name, IF type = Null THEN TypeLiteralNode(<<>>) ELSE type)

\* createResourceMessageArgOverload
CreateResourceMessageArgOverload(name, type) ==
  PropertySignature(name, IF type = Null THEN Never ELSE type)

\* The property signature createFormatMessageOverload returns once the
\* visitor has filled `variables`.
OverloadOf(name, variables) ==
  IF Len(variables) = 0
  THEN CreateResourceMessageArgOverload(name, Null)
  ELSE CreateResourceMessageArgOverload(name,
         TypeLiteralNode([i \in 1..Len(variables) |->
           PropertySignature(variables[i].key, variables[i].value)]))

\* Mutant: `args` is declared optional (args?: T[K]).
InferFormatterType_OptionalArgs(T) ==
  [i \in 1..Len(T) |->
    [id |-> T[i].name.text,
     parameters |->
       IF T[i].type = [kind |-> "TypeReference", typeName |-> "never"]
       THEN <<[name |-> "bundle", type |-> "FluentBundle", optional |-> FALSE],
              [name |-> "id", type |-> T[i].name.text, optional |-> FALSE],
              [name |-> "error", type |-> "null | Error[]", optional |-> TRUE]>>
       ELSE <<[name |-> "bundle", type |-> "FluentBundle", optional |-> FALSE],
              [name |-> "id", type |-> T[i].name.text, optional |-> FALSE],
              [name |-> "args", type |-> T[i].type, optional |-> TRUE],
              [name |-> "error", type |-> "null | Error[]", optional |-> TRUE]>>]]

\* Mutant: the conditional type is missing, every signature takes `args`.
InferFormatterType_AlwaysArgs(T) ==
  [i \in 1..Len(T) |->
    [id |-> T[i].name.text,
     parameters |-> <<[name |-> "bundle", type |-> "FluentBundle", optional |-> FALSE],
                      [name |-> "id", type |-> T[i].name.text, optional |-> FALSE],
                      [name |-> "args", type |-> T[i].type, optional |-> FALSE],
                      [name |-> "error", type |-> "null | Error[]", optional |-> TRUE]>>]]

Parameter(name, type, optional) ==
  [name |-> name, type |-> type, optional |-> optional]
ErrorParameter == Parameter("error", "null | Error[]", TRUE)

\* prelude.d.ts: one call signature per key K of T, without `args` when
\* T[K] extends never.
InferFormatterType(T) ==
  [i \in 1..Len(T) |->
    [id |-> T[i].name.text,
     parameters |->
       IF T[i].type = Never
       THEN <<Parameter("bundle", "FluentBundle", FALSE),
              Parameter("id", T[i].name.text, FALSE),
              ErrorParameter>>
       ELSE <<Parameter("bundle", "FluentBundle", FALSE),
              Parameter("id", T[i].name.text, FALSE),
              Parameter("args", T[i].type, FALSE),
              ErrorParameter>>]]

\* `${message.id.name}.${attribute.id.name}`
AttributeKey(message, attribute) ==
  message.id.name \o <<".">> \o attribute.id.name

\* Mutant: the filter lets every entry with an id through.
Messages_AllEntries(res) == res.body

\* resource.body.filter((entry) => entry instanceof Message)
IsMessage(entry) == entry.type = "Message"

Messages(res) == SelectSeq(res.body, IsMessage)

VARIABLES
  resource,            \* the parsed Fluent resource (input, never changed)
  pc,                  \* "loop" | "visit" | "emit" | "done"
  mi,                  \* index of the message of the for loop
  ai,                  \* 0: the message itself; k > 0: its k-th attribute
  variables,           \* the Map of the overload being created
  metadata,            \* the visitor's metadata Map
  stack,               \* the visitor's pending nodes
  overloads,           \* the property signatures pushed so far
  attributeOverloads,  \* the overloads of the current message's attributes
  declaration,         \* the emitted declaration, Null until emitted
  call,                \* a call of the declared formatMessage put to the type checker
  verdict,             \* the type checker's verdict on it
  bundle,              \* runtime formatMessage: the bundle argument
  id,                  \* runtime formatMessage: the id argument
  args,                \* runtime formatMessage: the third argument
  error,               \* runtime formatMessage: the fourth argument
  returned,            \* runtime formatMessage: what the call returned or threw
  files,               \* the file system: path -> content
  cycles,              \* the transform cycles of the plugin in flight
  localeCycle          \* a transform cycle of the plugin's locale variant

declarationVars == <<resource, pc, mi, ai, variables, metadata, stack, overloads,
                     attributeOverloads, declaration>>
callVars == <<call, verdict>>
runtimeVars == <<bundle, id, args, error, returned>>
pluginVars == <<files, cycles>>
vars == <<declarationVars, callVars, runtimeVars, pluginVars, localeCycle>>

\* The parts of the state that belong to no operation in progress.
CallIdle == call = Null /\ verdict = Null
RuntimeIdle == bundle = Null /\ id = Null /\ args = Null /\ error = Null /\ returned = Null
PluginIdle == files = Null /\ cycles = Null
LocaleIdle == localeCycle = Null

\* generateFluentDeclaration touches none of the runtime's or the plugin's state.
DeclarationOnly == UNCHANGED <<callVars, runtimeVars, pluginVars, localeCycle>>

\* The message or attribute createFormatMessageOverload is called with, and
\* the name it is called with.
CurrentMessage == Messages(resource)[mi]
CurrentObject ==
  IF ai = 0 THEN CurrentMessage ELSE CurrentMessage.attributes[ai]
CurrentName ==
  IF ai = 0 THEN CurrentMessage.id.name
  ELSE AttributeKey(CurrentMessage, CurrentMessage.attributes[ai])

\* The loop of createResourceMessageArgsType after one call of
\* createFormatMessageOverload returned `result` (<<>> for null, else
\* <<signature>>): the message's own overload is pushed at once, the
\* attributes' overloads are pushed together after the last of them.
Advance(result) ==
  LET last == ai = Len(CurrentMessage.attributes)
      own == IF ai = 0 THEN overloads \o result ELSE overloads
      attrs == IF ai = 0 THEN <<>> ELSE attributeOverloads \o result
  IN /\ overloads' = IF last THEN own \o attrs ELSE own
     /\ attributeOverloads' = IF last THEN <<>> ELSE attrs
     /\ mi' = IF last THEN mi + 1 ELSE mi
     /\ ai' = IF last THEN 0 ELSE ai + 1
     /\ pc' = IF last /\ mi + 1 > Len(Messages(resource)) THEN "emit" ELSE "loop"

\* Mutant: the null check is missing, a missing value counts as no variables.
OverloadNull_NeverEntry ==
  /\ pc = "loop"
  /\ CurrentObject.value = Null
  /\ Advance(<<PropertySignature(CurrentName, TypeReferenceNode("never"))>>)
  /\ UNCHANGED <<resource, variables, metadata, stack, declaration>>
  /\ DeclarationOnly

\* createFormatMessageOverload, object.value === null: return null.
OverloadNull ==
  /\ pc = "loop"
  /\ CurrentObject.value = Null
  /\ Advance(<<>>)
  /\ UNCHANGED <<resource, variables, metadata, stack, declaration>>
  /\ DeclarationOnly

\* Mutant: one Map and one visitor serve every entry of the resource.
OverloadBegin_SharedVisitor ==
  /\ pc = "loop"
  /\ CurrentObject.value # Null
  /\ stack' = <<CurrentObject.value>>
  /\ pc' = "visit"
  /\ UNCHANGED <<resource, mi, ai, variables, metadata, overloads,
                 attributeOverloads, declaration>>
  /\ DeclarationOnly

\* createFormatMessageOverload: a new Map and a new visitor, visit(object.value).
OverloadBegin ==
  /\ pc = "loop"
  /\ CurrentObject.value # Null
  /\ variables' = <<>>
  /\ metadata' = <<>>
  /\ stack' = <<CurrentObject.value>>
  /\ pc' = "visit"
  /\ UNCHANGED <<resource, mi, ai, overloads, attributeOverloads, declaration>>
  /\ DeclarationOnly

VisitStep ==
  /\ pc = "visit"
  /\ stack # <<>>
  /\ LET st == Visit(VisitorState(variables, metadata, stack))
     IN /\ variables' = st.variables
        /\ metadata' = st.metadata
        /\ stack' = st.stack
  /\ UNCHANGED <<resource, pc, mi, ai, overloads, attributeOverloads, declaration>>
  /\ DeclarationOnly

\* visit() of a variable reference
StepVariableReference ==
  /\ stack # <<>> /\ Head(stack).type = "VariableReference"
  /\ VisitStep

\* visit() of a select expression
StepSelectExpression ==
  /\ stack # <<>> /\ Head(stack).type = "SelectExpression"
  /\ VisitStep

\* visit() of any other node
StepGeneric ==
  /\ stack # <<>> /\ Head(stack).type \notin {"VariableReference", "SelectExpression"}
  /\ VisitStep

\* Mutant: an entry without variables is left out of the index.
OverloadReturn_SkipsEmpty ==
  /\ pc = "visit"
  /\ stack = <<>>
  /\ Advance(IF variables = <<>> THEN <<>> ELSE <<OverloadOf(CurrentName, variables)>>)
  /\ UNCHANGED <<resource, variables, metadata, stack, declaration>>
  /\ DeclarationOnly

\* createFormatMessageOverload after the visit: build and return the signature.
OverloadReturn ==
  /\ pc = "visit"
  /\ stack = <<>>
  /\ Advance(<<OverloadOf(CurrentName, variables)>>)
  /\ UNCHANGED <<resource, variables, metadata, stack, declaration>>
  /\ DeclarationOnly

\* createResourceMessageArgsType's type alias and createFormatMessageType.
Emit ==
  /\ pc = "emit"
  /\ declaration' = [ResourceMessageArgs |-> overloads,
                     FormatMessage |-> InferFormatterType(overloads)]
  /\ pc' = "done"
  /\ UNCHANGED <<resource, mi, ai, variables, metadata, stack, overloads,
                 attributeOverloads>>
  /\ DeclarationOnly

Next ==
  \/ OverloadNull
  \/ OverloadBegin
  \/ StepVariableReference
  \/ StepSelectExpression
  \/ StepGeneric
  \/ OverloadReturn
  \/ Emit

\* generateFluentDeclaration(fluent) right after parse().
InitControl ==
  /\ pc = IF Len(Messages(resource)) = 0 THEN "emit" ELSE "loop"
  /\ mi = 1
  /\ ai = 0
  /\ variables = <<>>
  /\ metadata = <<>>
  /\ stack = <<>>
  /\ overloads = <<>>
  /\ attributeOverloads = <<>>
  /\ declaration = Null
  /\ CallIdle /\ RuntimeIdle /\ PluginIdle /\ LocaleIdle

SingleMessage(elements) == Resource(<<Message(<<"m">>, Pattern(elements), <<>>)>>)

\* A pattern with a placeable of every other kind of expression: a term
\* reference, a string literal, a number literal, a nested placeable, a
\* message reference and a function call.
EveryKind ==
  <<Placeable(TermReference(<<"t">>)),
    Placeable(FluentStringLiteral(<<"s">>)),
    Placeable(NumberLiteral(<<"1">>)),
    Placeable(Placeable(VariableReference(<<"x">>))),
    Placeable(MessageReference(<<"h">>)),
    Placeable(Number(<<"n">>))>>

\* The README's resources: a message with attributes next to a term, and a
\* message without a value.
Examples ==
  {Resource(<<Term(<<"t">>, Pattern(<<TextElement>>)),
              Message(<<"m">>, Pattern(<<TextElement>>),
                <<Attribute(<<"c">>, Pattern(<<TextElement>>)),
                  Attribute(<<"o">>, Pattern(<<Placeable(VariableReference(<<"x">>))>>))>>)>>),
   Resource(<<Message(<<"g">>, Null,
                <<Attribute(<<"c">>, Pattern(<<TextElement>>))>>)>>),
   Resource(<<Term(<<"t">>, Pattern(<<TextElement>>))>>),
   SingleMessage(EveryKind)}

\* Every pattern of weight MaxNodes, composed from the lighter trees.
InitHeavy ==
  \/ \E j \in 1..(MaxNodes - 1) :
       \E e \in Gen[j].expr : \E p \in Gen[MaxNodes - j].pat :
         resource = SingleMessage(<<Placeable(e)>> \o p)
  \/ \E p \in Gen[MaxNodes - 1].ppat :
       resource = SingleMessage(<<TextElement>> \o p)
  \/ \E w \in 0..1 : \E s \in Selectors[w] : \E key \in VariantKeys :
       \* a select of weight MaxNodes: its first variant has weight j + 1
       \E j \in 1..(MaxNodes - 2 - w) : \E p \in Gen[j].pat :
         LET first == <<Variant(key, Pattern(p), FALSE)>>
             left == MaxNodes - 2 - w - j
         IN IF left = 0
            THEN resource = SingleMessage(<<Placeable(SelectExpression(s, WithDefault(first, 1)))>>)
            ELSE \E rest \in Gen[left].variants : \E d \in 1..(Len(rest) + 1) :
                   resource = SingleMessage(
                     <<Placeable(SelectExpression(s, WithDefault(first \o rest, d)))>>)

\* One message whose pattern is any tree of weight at most MaxNodes, or one
\* of the examples.
Init ==
  /\ \/ \E k \in 1..(MaxNodes - 1) : \E p \in Gen[k].pat : resource = SingleMessage(p)
     \/ InitHeavy
     \/ resource \in Examples
  /\ InitControl

Spec == Init /\ [][Next]_vars

\* ------------------------------------------------------------ resources
\* The patterns of the entries of a multi-entry resource: literal-only, a
\* plain reference, a select on the same variable.
LiteralOnly == Pattern(<<TextElement>>)
PlainN == Pattern(<<Placeable(VariableReference(<<"n">>))>>)
SelectN ==
  Pattern(<<Placeable(SelectExpression(VariableReference(<<"n">>),
    <<Variant(Identifier(<<"o", "n", "e">>),
              Pattern(<<Placeable(VariableReference(<<"x">>))>>), TRUE)>>))>>)
ValuePatterns == {LiteralOnly, PlainN, SelectN}
AttributePatterns == {LiteralOnly, SelectN}
Attributes == {Attribute(a, p) : a \in AttributeNames, p \in AttributePatterns}

\* Entries that stand for c addressable entries: a term, or a message with
\* a value and c - 1 attributes, or a message without a value and c
\* attributes (the parser accepts no message with neither).
EntriesOfCost(c) ==
  (IF c = 1 THEN {Term(<<"t">>, PlainN)} ELSE {})
    \cup {Message(m, v, as) :
            m \in MessageNames, v \in ValuePatterns, as \in [1..(c - 1) -> Attributes]}
    \cup {Message(m, Null, as) : m \in MessageNames, as \in [1..c -> Attributes]}

\* bodies[c + 1]: the resource bodies of exact cost c, for c < MaxEntries.
RECURSIVE BodiesFrom(_, _, _)
BodiesFrom(c, j, bodies) ==
  IF j > c THEN {}
  ELSE {<<e>> \o rest : e \in EntriesOfCost(j), rest \in bodies[c - j + 1]}
         \cup BodiesFrom(c, j + 1, bodies)
RECURSIVE BodiesUpTo(_, _)
BodiesUpTo(c, bodies) ==
  IF c > MaxEntries - 1 THEN bodies
  ELSE CHOOSE all \in {BodiesUpTo(c + 1, Append(bodies, level)) :
                         level \in {BodiesFrom(c, 1, bodies)}} : TRUE
Bodies == BodiesUpTo(1, <<{<<>>}>>)

\* Any resource of at most MaxEntries entries.
InitResource ==
  /\ \/ \E c \in 0..(MaxEntries - 1) : \E body \in Bodies[c + 1] :
          resource = Resource(body)
     \/ \E j \in 1..MaxEntries : \E e \in EntriesOfCost(j) :
          \E rest \in Bodies[MaxEntries - j + 1] :
            resource = Resource(<<e>> \o rest)
  /\ InitControl

SpecResource == InitResource /\ [][Next]_vars

\* ------------------------------------------------------------ properties
\* The syntax tree as the parser builds it: every child node of a node.
Children(node) ==
  CASE node.type = "Pattern" -> node.elements
    [] node.type = "Placeable" -> <<node.expression>>
    [] node.type = "SelectExpression" -> <<node.selector>> \o node.variants
    [] node.type = "Variant" -> <<node.key, node.value>>
    [] node.type = "FunctionReference" -> <<node.id, node.arguments>>
    [] node.type = "CallArguments" -> node.positional
    [] node.type = "MessageReference" -> <<node.id>>
    [] node.type = "TermReference" -> <<node.id>>
    [] node.type = "VariableReference" -> <<node.id>>
    [] OTHER -> <<>>

\* The nodes of a tree in depth-first pre-order, left to right.
RECURSIVE PreOrder(_)
RECURSIVE PreOrderAll(_)
PreOrder(node) == <<node>> \o PreOrderAll(Children(node))
PreOrderAll(nodes) ==
  IF nodes = <<>> THEN <<>> ELSE PreOrder(Head(nodes)) \o PreOrderAll(Tail(nodes))

IsReferenceTo(node, name) ==
  node.type = "VariableReference" /\ node.id.name = name
IsSelectOn(node, name) ==
  node.type = "SelectExpression" /\ IsReferenceTo(node.selector, name)

\* Positions in a pre-order listing: every reference to `name`, the selects
\* whose selector is `name`, and the references that are not such a selector.
ReferencesTo(pre, name) == {i \in 1..Len(pre) : IsReferenceTo(pre[i], name)}
SelectsOn(pre, name) == {i \in 1..Len(pre) : IsSelectOn(pre[i], name)}
PlainReferencesTo(pre, name) ==
  {i \in ReferencesTo(pre, name) : ~(i > 1 /\ IsSelectOn(pre[i - 1], name))}
VariablesIn(node) ==
  LET pre == PreOrder(node)
  IN {pre[i].id.name : i \in {i \in 1..Len(pre) : pre[i].type = "VariableReference"}}
Min(S) == CHOOSE i \in S : \A j \in S : i <= j

\* The literal union of a select's variant keys, as the documentation states
\* it: one member per variant, in declaration order.
KeyLiteral(key) ==
  IF key.type = "Identifier"
  THEN [kind |-> "StringLiteral", text |-> key.name]
  ELSE [kind |-> "NumericLiteral", text |-> key.value]
IsLiteralUnionOf(type, select) ==
  /\ type.kind = "UnionType"
  /\ Len(type.types) = Len(select.variants)
  /\ \A i \in 1..Len(select.variants) :
       type.types[i] = [kind |-> "LiteralType", literal |-> KeyLiteral(select.variants[i].key)]
IsLiteralUnion(type) == type # Undefined /\ type.kind = "UnionType"

\* The visitor has returned from visit(object.value); `variables` is the
\* inferred shape of CurrentPattern.
TraversalDone == pc = "visit" /\ stack = <<>>
CurrentPattern == CurrentObject.value

C2_FirstSelectIsUnionOfKeys ==
  [][(/\ pc = "visit"
      /\ stack # <<>>
      /\ Head(stack).type = "SelectExpression"
      /\ Head(stack).selector.type = "VariableReference"
      /\ ~MapHas(variables, Head(stack).selector.id.name)
      /\ ~MapHas(metadata, Head(stack).selector.id.name))
     => IsLiteralUnionOf(MapGet(variables', Head(stack).selector.id.name), Head(stack))]_vars

\* C2 witness: a select on $n with two variants, the default arm declared
\* first and an identifier key next to a number key, has just been visited.
C2_Witness ==
  /\ pc = "visit"
  /\ LET first == CurrentPattern.elements[1]
     IN /\ first.type = "Placeable"
        /\ IsSelectOn(first.expression, <<"n">>)
        /\ Len(first.expression.variants) = 2
        /\ first.expression.variants[1].default
        /\ first.expression.variants[1].key.type = "NumberLiteral"
        /\ first.expression.variants[2].key.type = "Identifier"
        /\ stack # <<>> /\ Head(stack) = first.expression.selector
  /\ variables = <<[key |-> <<"n">>,
                    value |-> UnionTypeNode(<<LiteralTypeNode(NumericLiteral(<<"1">>)),
                                              LiteralTypeNode(StringLiteral(<<"o", "n", "e">>))>>)]>>

\* C3: a variable met first as a plain reference and later as the selector
\* of a select ends with the literal union of (the first such) select, not
\* with FluentVariable.
C3_SelectNarrowsPlain ==
  TraversalDone =>
    LET pre == PreOrder(CurrentPattern)
    IN \A name \in VariablesIn(CurrentPattern) :
         (/\ SelectsOn(pre, name) # {}
          /\ PlainReferencesTo(pre, name) # {}
          /\ Min(PlainReferencesTo(pre, name)) < Min(SelectsOn(pre, name)))
         => /\ IsLiteralUnionOf(MapGet(variables, name), pre[Min(SelectsOn(pre, name))])
            /\ MapGet(variables, name) # TypeReferenceNode("FluentVariable")

\* C3 witness: { $n } comes first, a select on $n follows, and n ends as a
\* literal union.
C3_Witness ==
  /\ TraversalDone
  /\ Len(CurrentPattern.elements) >= 2
  /\ CurrentPattern.elements[1] = Placeable(VariableReference(<<"n">>))
  /\ CurrentPattern.elements[2].type = "Placeable"
  /\ IsSelectOn(CurrentPattern.elements[2].expression, <<"n">>)
  /\ IsLiteralUnion(MapGet(variables, <<"n">>))

\* C4: with two or more selects on the same variable, the variable ends with
\* the literal union of the select that comes first in pre-order.
C4_FirstSelectWins ==
  TraversalDone =>
    LET pre == PreOrder(CurrentPattern)
    IN \A name \in VariablesIn(CurrentPattern) :
         Cardinality(SelectsOn(pre, name)) >= 2 =>
           IsLiteralUnionOf(MapGet(variables, name), pre[Min(SelectsOn(pre, name))])

\* C4 witness: two selects on $n side by side with different keys; n keeps
\* the keys of the first.
C4_Witness ==
  /\ TraversalDone
  /\ Len(CurrentPattern.elements) = 2
  /\ CurrentPattern.elements[1].type = "Placeable"
  /\ CurrentPattern.elements[2].type = "Placeable"
  /\ IsSelectOn(CurrentPattern.elements[1].expression, <<"n">>)
  /\ IsSelectOn(CurrentPattern.elements[2].expression, <<"n">>)
  /\ CurrentPattern.elements[1].expression.variants[1].key
       # CurrentPattern.elements[2].expression.variants[1].key
  /\ IsLiteralUnionOf(MapGet(variables, <<"n">>), CurrentPattern.elements[1].expression)

\* C5: within the traversal of one pattern, a variable that holds a literal
\* union keeps exactly that type in every later step.
C5_NarrowingNeverUndone ==
  [][(pc = "visit" /\ pc' = "visit")
     => \A i \in 1..Len(variables) :
          IsLiteralUnion(variables[i].value)
            => MapGet(variables', variables[i].key) = variables[i].value]_vars

\* C5 witness: a select on $n whose variant references $n again has been
\* traversed completely, after a plain reference, and n is still the union.
C5_Witness ==
  /\ TraversalDone
  /\ LET pre == PreOrder(CurrentPattern)
     IN /\ SelectsOn(pre, <<"n">>) # {}
        /\ \E i \in PlainReferencesTo(pre, <<"n">>) : i > Min(SelectsOn(pre, <<"n">>))
        /\ IsLiteralUnionOf(MapGet(variables, <<"n">>), pre[Min(SelectsOn(pre, <<"n">>))])

\* C6: the names of the finished shape are exactly the variables referenced
\* anywhere in the pattern, each with one entry.
C6_ShapeNamesAreVariables ==
  TraversalDone =>
    /\ MapKeys(variables) = VariablesIn(CurrentPattern)
    /\ Cardinality(MapKeys(variables)) = Len(variables)

\* C6 witness: a pattern that references $x only inside a function-call
\* selector and $n only inside a variant, both in the finished shape.
C6_Witness ==
  /\ TraversalDone
  /\ Len(CurrentPattern.elements) = 1
  /\ CurrentPattern.elements[1].type = "Placeable"
  /\ CurrentPattern.elements[1].expression.type = "SelectExpression"
  /\ CurrentPattern.elements[1].expression.selector = Number(<<"x">>)
  /\ CurrentPattern.elements[1].expression.variants[1].value
       = Pattern(<<Placeable(VariableReference(<<"n">>))>>)
  /\ MapKeys(variables) = {<<"x">>, <<"n">>}

\* The addressable entries of a resource body, in declaration order: each
\* message that has a value under its name, each attribute under
\* "<message>.<attribute>".
EntriesOfMessage(message) ==
  (IF message.value # Null
   THEN <<[name |-> message.id.name, pattern |-> message.value]>>
   ELSE <<>>)
    \o [i \in 1..Len(message.attributes) |->
          [name |-> message.id.name \o <<".">> \o message.attributes[i].id.name,
           pattern |-> message.attributes[i].value]]
RECURSIVE AddressableEntries(_)
AddressableEntries(body) ==
  IF body = <<>> THEN <<>>
  ELSE (IF Head(body).type = "Message" THEN EntriesOfMessage(Head(body)) ELSE <<>>)
         \o AddressableEntries(Tail(body))

\* The inferencer run on one pattern alone, with a fresh Map and visitor.
Infer(pattern) == RunVisitor(VisitorState(<<>>, <<>>, <<pattern>>)).variables

\* The rendering of a shape: `never` for the empty shape, else a type literal
\* of one readonly property per variable, in insertion order.
RenderedShape(shape) ==
  IF shape = <<>> THEN [kind |-> "TypeReference", typeName |-> "never"]
  ELSE [kind |-> "TypeLiteral",
        members |-> [i \in 1..Len(shape) |->
          [kind |-> "PropertySignature", modifiers |-> <<"readonly">>,
           name |-> [kind |-> "StringLiteral", text |-> shape[i].key],
           type |-> shape[i].value]]]

Emitted == pc = "done"
ParameterNames(signature) ==
  [i \in 1..Len(signature.parameters) |-> signature.parameters[i].name]

\* C7: the emitted index has one key per message with a value and one key
\* "m.a" per attribute, each typed by the inference of that entry's own
\* pattern, and no other key.
C7_IndexKeysAndShapes ==
  Emitted =>
    LET entries == AddressableEntries(resource.body)
        T == declaration.ResourceMessageArgs
    IN /\ Len(T) = Len(entries)
       /\ \A i \in 1..Len(entries) :
            /\ T[i].name.text = entries[i].name
            /\ T[i].type = RenderedShape(Infer(entries[i].pattern))

\* C7 witness: a term, then a message with a value and an attribute with
\* variables: two keys, "m" and "m.a", and none for the term.
C7_Witness ==
  /\ Emitted
  /\ Len(resource.body) = 2
  /\ resource.body[1].type = "Term"
  /\ resource.body[2].type = "Message"
  /\ resource.body[2].value = PlainN
  /\ Len(resource.body[2].attributes) = 1
  /\ resource.body[2].attributes[1].value = SelectN
  /\ Len(declaration.ResourceMessageArgs) = 2
  /\ declaration.ResourceMessageArgs[1].name.text = resource.body[2].id.name
  /\ declaration.ResourceMessageArgs[2].name.text
       = resource.body[2].id.name \o <<".">> \o resource.body[2].attributes[1].id.name
  /\ declaration.ResourceMessageArgs[2].type.kind = "TypeLiteral"

\* C8: a message without a value adds no key of its own name (the keys of
\* that name are those of the messages of that name that have a value), and
\* each of its attributes has its key with its own inferred shape.
C8_NoValueNoKey ==
  Emitted =>
    LET T == declaration.ResourceMessageArgs
        messages == SelectSeq(resource.body, LAMBDA e : e.type = "Message")
    IN \A k \in 1..Len(messages) :
         messages[k].value = Null =>
           /\ Cardinality({i \in 1..Len(T) : T[i].name.text = messages[k].id.name})
                = Cardinality({j \in 1..Len(messages) :
                                 /\ messages[j].id.name = messages[k].id.name
                                 /\ messages[j].value # Null})
           /\ \A a \in 1..Len(messages[k].attributes) :
                \E i \in 1..Len(T) :
                  /\ T[i].name.text
                       = messages[k].id.name \o <<".">> \o messages[k].attributes[a].id.name
                  /\ T[i].type = RenderedShape(Infer(messages[k].attributes[a].value))

\* C8 witness: the only message has no value and two attributes; the index
\* holds the two attribute keys and not the message's name.
C8_Witness ==
  /\ Emitted
  /\ Len(resource.body) = 1
  /\ resource.body[1].type = "Message"
  /\ resource.body[1].value = Null
  /\ Len(resource.body[1].attributes) = 2
  /\ resource.body[1].attributes[1].id.name # resource.body[1].attributes[2].id.name
  /\ resource.body[1].attributes[2].value = SelectN
  /\ Len(declaration.ResourceMessageArgs) = 2
  /\ \A i \in 1..2 : declaration.ResourceMessageArgs[i].name.text # resource.body[1].id.name

\* C9: an entry whose pattern has no variable expression is typed `never` in
\* ResourceMessageArgs, and its formatMessage signature is (bundle, id,
\* error?): no arguments object, the optional error list third.
C9_NoVariablesIsNever ==
  Emitted =>
    LET entries == AddressableEntries(resource.body)
        T == declaration.ResourceMessageArgs
        F == declaration.FormatMessage
    IN \A i \in 1..Len(entries) :
         VariablesIn(entries[i].pattern) = {} =>
           /\ i <= Len(T) /\ i <= Len(F)
           /\ T[i].name.text = entries[i].name
           /\ T[i].type = [kind |-> "TypeReference", typeName |-> "never"]
           /\ F[i].id = entries[i].name
           /\ ParameterNames(F[i]) = <<"bundle", "id", "error">>
           /\ F[i].parameters[3].optional
           /\ F[i].parameters[3].type = "null | Error[]"

\* C9 witness: a literal-only message next to a message with variables.
C9_Witness ==
  /\ Emitted
  /\ Len(resource.body) = 2
  /\ resource.body[1].type = "Message" /\ resource.body[1].value = LiteralOnly
  /\ resource.body[1].attributes = <<>>
  /\ resource.body[2].type = "Message" /\ resource.body[2].value = SelectN
  /\ ParameterNames(declaration.FormatMessage[1]) = <<"bundle", "id", "error">>
  /\ ParameterNames(declaration.FormatMessage[2]) = <<"bundle", "id", "args", "error">>

\* C10 as stated: for a literal-only message the caller must still pass an
\* arguments value, i.e. its signature has a required `args` parameter.
C10_LiteralOnlyTakesArgs ==
  Emitted =>
    LET messages == SelectSeq(resource.body, LAMBDA e : e.type = "Message")
        F == declaration.FormatMessage
    IN \A k \in 1..Len(messages) :
         (messages[k].value # Null /\ VariablesIn(messages[k].value) = {}) =>
           \E i \in 1..Len(F) :
             /\ F[i].id = messages[k].id.name
             /\ \E j \in 1..Len(F[i].parameters) :
                  F[i].parameters[j].name = "args" /\ ~F[i].parameters[j].optional

\* C10 amended: a literal-only message infers the empty mapping, has a key,
\* and every signature of its key that stems from a literal-only message
\* takes no `args` (the caller must omit it); a message without a value,
\* whose name no message with a value bears, has no key and no signature at
\* all; so the declaration tells the two cases apart.
C10_LiteralOnlyOmitsArgs ==
  Emitted =>
    LET messages == SelectSeq(resource.body, LAMBDA e : e.type = "Message")
        valued == {messages[j].id.name : j \in {j \in 1..Len(messages) : messages[j].value # Null}}
        entries == AddressableEntries(resource.body)
        F == declaration.FormatMessage
    IN /\ \A i \in 1..Len(entries) :
            (\E k \in 1..Len(messages) :
               messages[k].id.name = entries[i].name /\ messages[k].value = entries[i].pattern)
            /\ VariablesIn(entries[i].pattern) = {}
            => /\ Infer(entries[i].pattern) = <<>>
               /\ i <= Len(F)
               /\ F[i].id = entries[i].name
               /\ \A j \in 1..Len(F[i].parameters) : F[i].parameters[j].name # "args"
       /\ \A k \in 1..Len(messages) :
            (messages[k].value = Null /\ messages[k].id.name \notin valued)
            => \A i \in 1..Len(F) : F[i].id # messages[k].id.name

\* C10 witness: a literal-only message and a message without a value in one
\* resource: the first has a signature without `args`, the second has none.
C10_Witness ==
  /\ Emitted
  /\ Len(resource.body) = 2
  /\ resource.body[1].type = "Message" /\ resource.body[1].value = LiteralOnly
  /\ resource.body[1].attributes = <<>>
  /\ resource.body[2].type = "Message" /\ resource.body[2].value = Null
  /\ resource.body[2].id.name # resource.body[1].id.name
  /\ declaration.FormatMessage[1].id = resource.body[1].id.name
  /\ ParameterNames(declaration.FormatMessage[1]) = <<"bundle", "id", "error">>
  /\ \A i \in 1..Len(declaration.FormatMessage) :
       declaration.FormatMessage[i].id # resource.body[2].id.name

\* The resource `demo = Look ma, no arguments!`: one message, a literal-only
\* pattern, no attributes.
IsDemoResource ==
  /\ Len(resource.body) = 1
  /\ resource.body[1].type = "Message"
  /\ resource.body[1].value = LiteralOnly
  /\ resource.body[1].attributes = <<>>

\* C11 as stated: for the resource of a single literal-only message the
\* emitted index is empty, it has no key for the message.
C11_DemoHasNoKey ==
  (Emitted /\ IsDemoResource) => declaration.ResourceMessageArgs = <<>>

\* C11 amended: for the resource of a single literal-only message the index
\* holds exactly one key, the message's name, typed `never`, and the one
\* signature for it accepts no arguments parameter.
C11_DemoHasNeverKey ==
  (Emitted /\ IsDemoResource) =>
    /\ Len(declaration.ResourceMessageArgs) = 1
    /\ declaration.ResourceMessageArgs[1].name.text = resource.body[1].id.name
    /\ declaration.ResourceMessageArgs[1].type.typeName = "never"
    /\ Len(declaration.FormatMessage) = 1
    /\ \A j \in 1..Len(declaration.FormatMessage[1].parameters) :
         declaration.FormatMessage[1].parameters[j].name # "args"

\* C11 witness: the declaration of the single literal-only message "m" has
\* been emitted with its key.
C11_Witness ==
  /\ Emitted
  /\ IsDemoResource
  /\ resource.body[1].id.name = <<"m">>
  /\ declaration.ResourceMessageArgs # <<>>
  /\ declaration.ResourceMessageArgs[1].name.text = <<"m">>

\* C12: every key of the index has its formatMessage signature: (bundle, id,
\* error?) when the key is typed `never`, else (bundle, id, args, error?)
\* with args required and typed as the key's rendered shape; the last
\* parameter is always the optional error list.
C12_SignatureForms ==
  Emitted =>
    LET T == declaration.ResourceMessageArgs
        F == declaration.FormatMessage
    IN /\ Len(F) = Len(T)
       /\ \A i \in 1..Len(T) :
            LET ps == F[i].parameters
                last == ps[Len(ps)]
            IN /\ F[i].id = T[i].name.text
               /\ ps[1].name = "bundle" /\ ~ps[1].optional
               /\ ps[2].name = "id" /\ ps[2].type = T[i].name.text /\ ~ps[2].optional
               /\ last.name = "error" /\ last.optional /\ last.type = "null | Error[]"
               /\ IF T[i].type.kind = "TypeReference" /\ T[i].type.typeName = "never"
                  THEN Len(ps) = 3
                  ELSE /\ Len(ps) = 4
                       /\ ps[3].name = "args"
                       /\ ps[3].type = T[i].type
                       /\ ~ps[3].optional

\* C12 witness: a message with variables whose attribute has none: the
\* first signature takes the shape as args, the second takes no args.
C12_Witness ==
  /\ Emitted
  /\ Len(resource.body) = 1
  /\ resource.body[1].type = "Message"
  /\ resource.body[1].value = SelectN
  /\ Len(resource.body[1].attributes) = 1
  /\ resource.body[1].attributes[1].value = LiteralOnly
  /\ Len(declaration.FormatMessage) = 2
  /\ Len(declaration.FormatMessage[1].parameters) = 4
  /\ declaration.FormatMessage[1].parameters[3].type.kind = "TypeLiteral"
  /\ Len(declaration.FormatMessage[2].parameters) = 3

\* ------------------------------------------------------------ typed calls
\* The declared formatMessage under the type checker. A call is
\* formatMessage(bundle, id, ...rest); an argument of `rest` is null, an
\* Error[] value, or an object given by the types of its fields, either
\* written as an object literal (fresh) or passed through a variable.
StringType == [kind |-> "StringKeyword"]
ValueTypes == {StringType, LiteralTypeNode(StringLiteral(<<"o", "n", "e">>))}
FieldNames == VarNames \cup {<<"a", "g", "e">>}
NullArgument == [kind |-> "null"]
ErrorsArgument == [kind |-> "Error[]"]
ObjectArgument(fields, fresh) == [kind |-> "object", fields |-> fields, fresh |-> fresh]
ObjectArguments ==
  {ObjectArgument(fields, fresh) :
     fields \in UNION {[names -> ValueTypes] : names \in SUBSET FieldNames},
     fresh \in BOOLEAN}
CallIds == {<<"m">>, <<"g">>, <<"m", ".", "c">>, <<"g", ".", "c">>, <<"w">>}
Calls ==
  {[id |-> i, rest |-> r] :
     i \in CallIds,
     r \in {<<>>} \cup {<<a>> : a \in ObjectArguments \cup {NullArgument, ErrorsArgument}}
             \cup {<<a, ErrorsArgument>> : a \in ObjectArguments}}

\* Mutant: a property of the shape may be left out (name?: type).
AssignableToShape_OptionalMembers(argument, shape) ==
  /\ argument.kind = "object"
  /\ \A i \in 1..Len(shape.members) :
       LET member == shape.members[i]
       IN member.name.text \in DOMAIN argument.fields
            => \/ member.type = FluentVariable
               \/ /\ member.type.kind = "UnionType"
                  /\ \E k \in 1..Len(member.type.types) :
                       member.type.types[k] = argument.fields[member.name.text]
  /\ argument.fresh =>
       \A name \in DOMAIN argument.fields :
         \E i \in 1..Len(shape.members) : shape.members[i].name.text = name

\* Assignability of an argument to `args: T[K]`, T[K] a type literal of
\* required readonly properties: every property must be there with an
\* assignable type (FluentVariable takes strings, a literal union only its
\* members); a property outside the type is an error only in an object
\* literal (excess property check).
AssignableToShape(argument, shape) ==
  /\ argument.kind = "object"
  /\ \A i \in 1..Len(shape.members) :
       LET member == shape.members[i]
       IN /\ member.name.text \in DOMAIN argument.fields
          /\ \/ member.type = FluentVariable
             \/ /\ member.type.kind = "UnionType"
                /\ \E k \in 1..Len(member.type.types) :
                     member.type.types[k] = argument.fields[member.name.text]
  /\ argument.fresh =>
       \A name \in DOMAIN argument.fields :
         \E i \in 1..Len(shape.members) : shape.members[i].name.text = name

\* Assignability of an argument to one parameter after `bundle` and `id`.
AssignableToParameter(argument, parameter) ==
  IF parameter.name = "error"
  THEN argument.kind \in {"null", "Error[]"}
  ELSE AssignableToShape(argument, parameter.type)

\* One call signature applies to a call: the id is the signature's literal
\* id, no more arguments than parameters, every parameter without an
\* argument is optional, every argument is assignable to its parameter.
SignatureApplies(signature, c) ==
  LET parameters == SubSeq(signature.parameters, 3, Len(signature.parameters))
  IN /\ signature.id = c.id
     /\ Len(c.rest) <= Len(parameters)
     /\ \A j \in 1..Len(parameters) :
          IF j <= Len(c.rest)
          THEN AssignableToParameter(c.rest[j], parameters[j])
          ELSE parameters[j].optional

\* The call type-checks against FormatMessage, the intersection of the
\* signatures of InferFormatterType<ResourceMessageArgs>.
TypeChecks(F, c) == \E i \in 1..Len(F) : SignatureApplies(F[i], c)

\* tsc on one call of the declared formatMessage.
TypeCheck ==
  /\ pc = "done"
  /\ call = Null
  /\ \E c \in Calls :
       /\ call' = c
       /\ verdict' = IF TypeChecks(declaration.FormatMessage, c)
                     THEN "accepted" ELSE "rejected"
  /\ UNCHANGED <<declarationVars, runtimeVars, pluginVars, localeCycle>>

NextTyped ==
  \/ OverloadNull
  \/ OverloadBegin
  \/ StepVariableReference
  \/ StepSelectExpression
  \/ StepGeneric
  \/ OverloadReturn
  \/ Emit
  \/ TypeCheck

\* The README's resources: a message with a select and a literal-only
\* attribute; a plain message next to a message that only has an
\* attribute; a resource of a term alone, whose index is empty.
TypedResources ==
  {Resource(<<Message(<<"m">>, SelectN, <<Attribute(<<"c">>, LiteralOnly)>>)>>),
   Resource(<<Message(<<"m">>, PlainN, <<>>),
              Message(<<"g">>, Null, <<Attribute(<<"c">>, SelectN)>>)>>),
   Resource(<<Message(<<"g">>, LiteralOnly, <<>>), Term(<<"t">>, PlainN)>>),
   Resource(<<Term(<<"t">>, PlainN)>>)}

InitTyped ==
  /\ resource \in TypedResources
  /\ InitControl

SpecTyped == InitTyped /\ [][NextTyped]_vars

\* The shape the index binds to the id of the call, if any.
Checked == call # Null
CallKeys == {i \in 1..Len(declaration.ResourceMessageArgs) :
               declaration.ResourceMessageArgs[i].name.text = call.id}
ShapeNames(i) ==
  LET type == declaration.ResourceMessageArgs[i].type
  IN IF type.kind = "TypeLiteral"
     THEN {type.members[k].name.text : k \in 1..Len(type.members)}
     ELSE {}
CallFields ==
  IF call.rest # <<>> /\ call.rest[1].kind = "object"
  THEN DOMAIN call.rest[1].fields ELSE {}
CallIsLiteral ==
  call.rest # <<>> /\ call.rest[1].kind = "object" /\ call.rest[1].fresh

\* C13 as stated: a call is accepted only if its id is a key of the index
\* and its arguments object has exactly the fields of that key's shape.
C13_AcceptsOnlyExactFields ==
  (Checked /\ verdict = "accepted") =>
    \E i \in CallKeys : CallFields = ShapeNames(i)

\* C13 amended: a call is accepted only if its id is a key of the index and
\* its arguments provide every field of that key's shape; an arguments
\* object written as a literal is accepted only with exactly the shape's
\* fields (a field outside the shape is rejected there), while an object
\* passed through a variable may carry further fields.
C13_AcceptsOnlyKeysAndShapeFields ==
  (Checked /\ verdict = "accepted") =>
    \E i \in CallKeys :
      /\ ShapeNames(i) \subseteq CallFields
      /\ CallIsLiteral => CallFields = ShapeNames(i)

\* C13 witness: formatMessage(bundle, "m", { n: "one", x: string }) typed
\* against the message with the select has been accepted.
C13_Witness ==
  /\ Checked
  /\ verdict = "accepted"
  /\ call.id = <<"m">>
  /\ CallIsLiteral
  /\ CallFields = {<<"n">>, <<"x">>}
  /\ \E i \in CallKeys : ShapeNames(i) = {<<"n">>, <<"x">>}

\* ------------------------------------------------------------ runtime
\* runtime.js, inlined into the generated module by createInlineRuntime.
\* A bundle maps message ids to messages {value, attributes}; a pattern is
\* named after the place it was defined at.
RuntimeMessageIds == {<<"m">>, <<"m", "g">>}
RuntimeAttributeIds == {<<"c">>, <<"c", "o">>}
RuntimePattern(message, attribute) ==
  [type |-> "Pattern", message |-> message, attribute |-> attribute]
RuntimeMessage(name, valued, attributes) ==
  [id |-> name,
   value |-> IF valued THEN RuntimePattern(name, Null) ELSE Null,
   attributes |-> [a \in attributes |-> RuntimePattern(name, a)]]
Bundles ==
  {[name \in names |-> RuntimeMessage(name, name \in valued, attributes[name])] :
     names \in SUBSET RuntimeMessageIds,
     valued \in SUBSET RuntimeMessageIds,
     attributes \in [RuntimeMessageIds -> {{}, {<<"c">>}, RuntimeAttributeIds}]}

\* The ids a caller may pass: of a message, of an attribute, with a second
\* dot, with nothing before the dot, of no message.
RuntimeIds ==
  RuntimeMessageIds
    \cup {m \o <<".">> \o a : m \in RuntimeMessageIds, a \in RuntimeAttributeIds}
    \cup {<<"m", ".", "c", ".", "o">>, <<".", "c">>, <<"g">>, <<"g", ".", "c">>}

\* The values of the third and fourth argument: left out, null, an array of
\* errors, an object of arguments.
EmptyObject == [kind |-> "object", fields |-> <<>>]
ErrorList == [kind |-> "array", items |-> <<>>]
ArgsValues ==
  {Undefined, Null, ErrorList, EmptyObject,
   [kind |-> "object", fields |-> <<[key |-> <<"n">>, value |-> "John"]>>]}
\* A second array, one that already holds an error.
CollectedErrors == [kind |-> "array", items |-> <<"ReferenceError">>]
ErrorValues == {Undefined, Null, ErrorList, CollectedErrors}

\* Mutant: the id is split at its last dot.
IndexOf_Last(s, ch) ==
  IF \E k \in 1..Len(s) : s[k] = ch
  THEN (CHOOSE k \in 1..Len(s) : s[k] = ch /\ \A j \in (k + 1)..Len(s) : s[j] # ch) - 1
  ELSE -1

\* String.prototype.indexOf: the 0-based index of the first ch, or -1.
IndexOf(s, ch) ==
  IF \E k \in 1..Len(s) : s[k] = ch
  THEN (CHOOSE k \in 1..Len(s) : s[k] = ch /\ \A j \in 1..(k - 1) : s[j] # ch) - 1
  ELSE -1

\* String.prototype.slice(from, to) and slice(from), 0-based, to excluded.
Slice(s, from, to) == SubSeq(s, from + 1, to)
SliceFrom(s, from) == SubSeq(s, from + 1, Len(s))

\* bundle.getMessage(id) and the property read of a plain object.
GetMessage(b, name) == IF name \in DOMAIN b THEN b[name] ELSE Undefined
Property(object, key) == IF key \in DOMAIN object THEN object[key] ELSE Undefined

\* bundle.formatPattern(pattern, args, errors), a call of @fluent/bundle.
FormatPattern(pattern, arguments, errors) ==
  [call |-> "formatPattern", pattern |-> pattern, args |-> arguments, errors |-> errors]
TypeError == [throws |-> "TypeError"]

\* formatMessage, lines 7-13: the message and the pattern the id names.
attrIndex == IndexOf(id, ".")
isAttribute == attrIndex > -1
messageId == IF isAttribute THEN Slice(id, 0, attrIndex) ELSE id
message == GetMessage(bundle, messageId)
pattern ==
  IF isAttribute
  THEN Property(message.attributes, SliceFrom(id, attrIndex + 1))
  ELSE message.value

\* args === null || Array.isArray(args)
NullOrArray(value) == IF value = Null THEN TRUE ELSE value.kind = "array"

\* Array.isArray(value)
IsArrayValue(value) == IF value = Null THEN FALSE ELSE value.kind = "array"

\* The call has been made and has not returned yet.
Called == returned = Null

\* formatMessage: the bundle has no such message, reading a property of
\* undefined throws.
FormatMessageThrows ==
  /\ Called
  /\ message = Undefined
  /\ returned' = TypeError
  /\ UNCHANGED <<bundle, id, args, error>>
  /\ UNCHANGED <<declarationVars, callVars, pluginVars, localeCycle>>

\* Mutant: the error list is read from the fourth parameter as always.
FormatMessageErrorList_FourthParameter ==
  /\ Called
  /\ message # Undefined
  /\ NullOrArray(args)
  /\ returned' = FormatPattern(pattern, EmptyObject, error)
  /\ UNCHANGED <<bundle, id, args, error>>
  /\ UNCHANGED <<declarationVars, callVars, pluginVars, localeCycle>>

\* Mutant: an array in the fourth parameter is preferred to the third.
FormatMessageErrorList_PrefersFourth ==
  /\ Called
  /\ message # Undefined
  /\ NullOrArray(args)
  /\ returned' = FormatPattern(pattern, EmptyObject,
                                IF IsArrayValue(error) THEN error ELSE args)
  /\ UNCHANGED <<bundle, id, args, error>>
  /\ UNCHANGED <<declarationVars, callVars, pluginVars, localeCycle>>

\* formatMessage, lines 14-15: args is null or an array.
FormatMessageErrorList ==
  /\ Called
  /\ message # Undefined
  /\ NullOrArray(args)
  /\ returned' = FormatPattern(pattern, EmptyObject, args)
  /\ UNCHANGED <<bundle, id, args, error>>
  /\ UNCHANGED <<declarationVars, callVars, pluginVars, localeCycle>>

\* Mutant: the fourth argument is not passed on.
FormatMessageArgs_DropsError ==
  /\ Called
  /\ message # Undefined
  /\ ~NullOrArray(args)
  /\ returned' = FormatPattern(pattern, args, Undefined)
  /\ UNCHANGED <<bundle, id, args, error>>
  /\ UNCHANGED <<declarationVars, callVars, pluginVars, localeCycle>>

\* formatMessage, line 16: any other args.
FormatMessageArgs ==
  /\ Called
  /\ message # Undefined
  /\ ~NullOrArray(args)
  /\ returned' = FormatPattern(pattern, args, error)
  /\ UNCHANGED <<bundle, id, args, error>>
  /\ UNCHANGED <<declarationVars, callVars, pluginVars, localeCycle>>

NextRuntime ==
  \/ FormatMessageThrows
  \/ FormatMessageErrorList
  \/ FormatMessageArgs

\* No declaration is being generated.
DeclarationIdle ==
  /\ resource = Resource(<<>>)
  /\ pc = "done"
  /\ mi = 1
  /\ ai = 0
  /\ variables = <<>>
  /\ metadata = <<>>
  /\ stack = <<>>
  /\ overloads = <<>>
  /\ attributeOverloads = <<>>
  /\ declaration = Null

InitRuntime ==
  /\ bundle \in Bundles
  /\ id \in RuntimeIds
  /\ args \in ArgsValues
  /\ error \in ErrorValues
  /\ returned = Null
  /\ DeclarationIdle /\ CallIdle /\ PluginIdle /\ LocaleIdle

SpecRuntime == InitRuntime /\ [][NextRuntime]_vars

\* What an id addresses: without a dot the message of that name; else the
\* part before its first dot names the message, the part after it the
\* attribute.
FirstDots(i) == {k \in 1..Len(i) : i[k] = "." /\ \A j \in 1..(k - 1) : i[j] # "."}
AddressedMessage(i) ==
  IF FirstDots(i) = {} THEN i
  ELSE LET k == CHOOSE k \in FirstDots(i) : TRUE IN SubSeq(i, 1, k - 1)
AddressedPattern(b, i) ==
  IF FirstDots(i) = {} THEN b[i].value
  ELSE LET k == CHOOSE k \in FirstDots(i) : TRUE
           m == b[SubSeq(i, 1, k - 1)]
           a == SubSeq(i, k + 1, Len(i))
       IN IF a \in DOMAIN m.attributes THEN m.attributes[a] ELSE Undefined
Returned == returned # Null

C15_ArgsAndErrorPassedOn ==
  (Returned /\ AddressedMessage(id) \in DOMAIN bundle /\ ~NullOrArray(args)) =>
    returned = FormatPattern(AddressedPattern(bundle, id), args, error)

\* C15 witness: formatMessage(bundle, "m", { n: "John" }, errors) returned
\* the formatting of m's value with that object and that list.
C15_Witness ==
  /\ Returned
  /\ id = <<"m">>
  /\ args # Null /\ args.kind = "object" /\ args.fields # <<>>
  /\ error = ErrorList
  /\ returned # TypeError
  /\ returned.pattern = RuntimePattern(<<"m">>, Null)
  /\ returned.args = args
  /\ returned.errors = ErrorList

\* C16: with a third argument that is null or an array, the addressed
\* pattern (the message's own text) is formatted with an empty arguments
\* object and the third argument as the error list.
C16_ThirdArgumentAsErrorList ==
  (Returned /\ AddressedMessage(id) \in DOMAIN bundle /\ NullOrArray(args)) =>
    returned = FormatPattern(AddressedPattern(bundle, id), EmptyObject, args)

\* C16 witness: formatMessage(bundle, "m", errors) returned the formatting
\* of m's value with {} and the list.
C16_Witness ==
  /\ Returned
  /\ id = <<"m">>
  /\ args = ErrorList
  /\ error = Undefined
  /\ returned # TypeError
  /\ returned.pattern = RuntimePattern(<<"m">>, Null)
  /\ returned.args = EmptyObject
  /\ returned.errors = ErrorList

\* C17: the shape bound to an entry depends on that entry's pattern alone:
\* whatever the other messages and attributes of the resource are, it is
\* the shape the pattern yields when inferred by itself, so entries with the
\* same pattern have the same shape and no entry's variables or narrowing
\* show up in another entry's shape.
C17_ShapeDependsOnOwnPattern ==
  Emitted =>
    LET entries == AddressableEntries(resource.body)
        T == declaration.ResourceMessageArgs
        shape(i) == IF i <= Len(T) THEN T[i].type ELSE Undefined
    IN \A i \in 1..Len(entries) :
         /\ shape(i) = OverloadOf(entries[i].name, Infer(entries[i].pattern)).type
         /\ \A j \in 1..Len(entries) :
              entries[i].pattern = entries[j].pattern => shape(i) = shape(j)

\* C17 witness: a message that selects on $n, followed by a message that
\* only interpolates $n: the second shape keeps n opaque and has no x.
C17_Witness ==
  /\ Emitted
  /\ Len(resource.body) = 2
  /\ resource.body[1].type = "Message" /\ resource.body[1].value = SelectN
  /\ resource.body[1].attributes = <<>>
  /\ resource.body[2].type = "Message" /\ resource.body[2].value = PlainN
  /\ resource.body[2].attributes = <<>>
  /\ Len(declaration.ResourceMessageArgs) = 2
  /\ declaration.ResourceMessageArgs[1].type.members[1].type.kind = "UnionType"
  /\ declaration.ResourceMessageArgs[2].type
       = TypeLiteralNode(<<PropertySignature(<<"n">>, FluentVariable)>>)

\* ------------------------------------------------------------ plugin
\* The vite plugin: transform(source, id) is an async function, one cycle
\* per imported module; the host may start the next before one has settled.
\* Paths are strings of characters, a file's content is the Fluent source,
\* given by the resource it parses to.
FtlExtension == <<".", "f", "t", "l">>
DeclarationExtension == <<".", "d", ".", "t", "s">>
FileA == <<"a">> \o FtlExtension
FileB == <<"b">> \o FtlExtension
PluginIds == {FileA, FileB, <<"a", ".", "t", "s">>, FileA \o DeclarationExtension}

\* The contents each .ftl file goes through as its author edits it.
FtlVersions(path) ==
  IF path = FileA
  THEN <<Resource(<<Message(<<"m">>, SelectN, <<Attribute(<<"c">>, LiteralOnly)>>)>>),
         Resource(<<Message(<<"m">>, PlainN, <<>>),
                    Message(<<"g">>, Null, <<Attribute(<<"c">>, SelectN)>>)>>)>>
  ELSE <<Resource(<<Message(<<"g">>, LiteralOnly, <<>>), Term(<<"t">>, PlainN)>>),
         Resource(<<Term(<<"t">>, PlainN)>>)>>

\* FTL_FILE_REGEX = /\.ftl$/
EndsWith(s, suffix) ==
  /\ Len(s) >= Len(suffix)
  /\ SubSeq(s, Len(s) - Len(suffix) + 1, Len(s)) = suffix
FTL_FILE_REGEX(path) == EndsWith(path, FtlExtension)

\* transformFluentFile: the import, the resource export of the source, the
\* inlined runtime.
TransformFluentFile(fluent) ==
  [type |-> "SourceFile",
   statements |-> <<[import |-> "@fluent/bundle"],
                    [export |-> "resource", FluentResource |-> fluent],
                    [function |-> "formatMessage"]>>]

\* generateFluentDeclaration: the index of the parsed source and the
\* formatMessage type over it.
GenerateFluentDeclaration(fluent) ==
  LET entries == AddressableEntries(fluent.body)
      T == [i \in 1..Len(entries) |->
              OverloadOf(entries[i].name, Infer(entries[i].pattern))]
  IN [type |-> "SourceFile",
      ResourceMessageArgs |-> T,
      FormatMessage |-> InferFormatterType(T)]

\* printer.printFile
PrintFile(node) == [text |-> "printed", of |-> node]

\* The cycles the host may start.
Cycles == 1..MaxCycles

\* A cycle's locals; `settled` is what the promise resolved with.
Pending == [kind |-> "pending"]
NewCycle(path) ==
  [id |-> path, pc |-> "start", ftl |-> Undefined, typescript |-> Undefined,
   declaration |-> Undefined, declarationPath |-> Undefined, settled |-> Pending]

pluginOnly == UNCHANGED <<declarationVars, callVars, runtimeVars, localeCycle>>

\* The author saves the next version of a .ftl file.
EditFile(path) ==
  /\ \E k \in 1..(Len(FtlVersions(path)) - 1) :
       /\ files[path] = FtlVersions(path)[k]
       /\ files' = [files EXCEPT ![path] = FtlVersions(path)[k + 1]]
  /\ UNCHANGED cycles
  /\ pluginOnly

\* transform, lines 53-55: not a .ftl module, return null.
TransformSkip(c) ==
  /\ c \in DOMAIN cycles
  /\ cycles[c].pc = "start"
  /\ ~FTL_FILE_REGEX(cycles[c].id)
  /\ cycles' = [cycles EXCEPT ![c].pc = "done", ![c].settled = Null]
  /\ UNCHANGED files
  /\ pluginOnly

\* Mutant: what was read lands in a buffer that all cycles share.
TransformRead_SharedBuffer(c) ==
  /\ c \in DOMAIN cycles
  /\ cycles[c].pc = "start"
  /\ FTL_FILE_REGEX(cycles[c].id)
  /\ cycles' = [d \in DOMAIN cycles |->
                 IF d = c
                 THEN [cycles[d] EXCEPT !.pc = "read", !.ftl = files[cycles[c].id]]
                 ELSE [cycles[d] EXCEPT !.ftl = files[cycles[c].id]]]
  /\ UNCHANGED files
  /\ pluginOnly

\* transform, line 57: await fs.readFile(id).
TransformRead(c) ==
  /\ c \in DOMAIN cycles
  /\ cycles[c].pc = "start"
  /\ FTL_FILE_REGEX(cycles[c].id)
  /\ cycles' = [cycles EXCEPT ![c].pc = "read", ![c].ftl = files[cycles[c].id]]
  /\ UNCHANGED files
  /\ pluginOnly

\* transform, lines 58-65: the code and the declaration of what was read.
TransformGenerate(c) ==
  /\ c \in DOMAIN cycles
  /\ cycles[c].pc = "read"
  /\ cycles' = [cycles EXCEPT
       ![c].pc = "write",
       ![c].typescript = PrintFile(TransformFluentFile(cycles[c].ftl)),
       ![c].declaration = PrintFile(GenerateFluentDeclaration(cycles[c].ftl)),
       ![c].declarationPath = cycles[c].id \o DeclarationExtension]
  /\ UNCHANGED files
  /\ pluginOnly

\* transform, line 66: fs.writeFile(declarationPath, declaration) completes.
TransformWrite(c) ==
  /\ c \in DOMAIN cycles
  /\ cycles[c].pc = "write"
  /\ files' = [path \in DOMAIN files \cup {cycles[c].declarationPath} |->
                 IF path = cycles[c].declarationPath THEN cycles[c].declaration
                 ELSE files[path]]
  /\ cycles' = [cycles EXCEPT ![c].pc = "written"]
  /\ pluginOnly

\* Mutant: the write is not awaited.
TransformReturn_NoAwait(c) ==
  /\ c \in DOMAIN cycles
  /\ cycles[c].pc \in {"write", "written"}
  /\ cycles' = [cycles EXCEPT ![c].pc = "done",
                              ![c].settled = [code |-> cycles[c].typescript]]
  /\ UNCHANGED files
  /\ pluginOnly

\* transform, lines 67-69: after the awaited write, return { code }.
TransformReturn(c) ==
  /\ c \in DOMAIN cycles
  /\ cycles[c].pc = "written"
  /\ cycles' = [cycles EXCEPT ![c].pc = "done",
                              ![c].settled = [code |-> cycles[c].typescript]]
  /\ UNCHANGED files
  /\ pluginOnly

NextPlugin ==
  \/ \E path \in {FileA, FileB} : EditFile(path)
  \/ \E c \in Cycles : TransformSkip(c)
  \/ \E c \in Cycles : TransformRead(c)
  \/ \E c \in Cycles : TransformGenerate(c)
  \/ \E c \in Cycles : TransformWrite(c)
  \/ \E c \in Cycles : TransformReturn(c)

\* The two .ftl files at their first version, and up to MaxCycles cycles
\* started by the host.
InitPlugin ==
  /\ files = [path \in {FileA, FileB} |-> FtlVersions(path)[1]]
  /\ \E n \in 1..MaxCycles : \E ids \in [1..n -> PluginIds] :
       cycles = [c \in 1..n |-> NewCycle(ids[c])]
  /\ DeclarationIdle /\ CallIdle /\ RuntimeIdle /\ LocaleIdle

SpecPlugin == InitPlugin /\ [][NextPlugin]_vars

\* What one cycle produces from one content of its file.
VersionsOf(path) == {FtlVersions(path)[k] : k \in 1..Len(FtlVersions(path))}
CodeOf(fluent) == PrintFile(TransformFluentFile(fluent))
DeclarationOf(fluent) == PrintFile(GenerateFluentDeclaration(fluent))
Settled(c) == cycles[c].settled # Pending
SharesId(c) == \E d \in DOMAIN cycles : d # c /\ cycles[d].id = cycles[c].id

\* C18: a cycle for an id ending in .ftl resolves with the generated code,
\* and only after its declaration has been written to <id>.d.ts; the code
\* and the declaration stem from the one content the cycle read.
C18_WriteBeforeResolve ==
  \A c \in DOMAIN cycles :
    (FTL_FILE_REGEX(cycles[c].id) /\ Settled(c)) =>
      LET path == cycles[c].id \o DeclarationExtension
      IN /\ cycles[c].ftl \in VersionsOf(cycles[c].id)
         /\ cycles[c].settled = [code |-> CodeOf(cycles[c].ftl)]
         /\ cycles[c].declaration = DeclarationOf(cycles[c].ftl)
         /\ path \in DOMAIN files
         /\ \E d \in DOMAIN cycles :
              /\ cycles[d].id = cycles[c].id
              /\ files[path] = cycles[d].declaration
         /\ ~SharesId(c) => files[path] = DeclarationOf(cycles[c].ftl)

\* C18 witness: the only cycle read a.ftl after its author's edit and has
\* resolved; a.ftl.d.ts holds the declaration of that second version.
C18_Witness ==
  /\ DOMAIN cycles = {1}
  /\ cycles[1].id = FileA
  /\ Settled(1)
  /\ cycles[1].ftl = FtlVersions(FileA)[2]
  /\ (FileA \o DeclarationExtension) \in DOMAIN files
  /\ files[FileA \o DeclarationExtension] = DeclarationOf(FtlVersions(FileA)[2])

\* C19: when the cycles in flight are for different resources, every
\* settled cycle has returned the code and written the declaration that it
\* produces alone from some content of its own file, however the steps of
\* the cycles interleave; a cycle for another file leaves no trace in it.
C19_InterleavingIsInvisible ==
  (\A c, d \in DOMAIN cycles : c # d => cycles[c].id # cycles[d].id) =>
    \A c \in DOMAIN cycles :
      Settled(c) =>
        IF FTL_FILE_REGEX(cycles[c].id)
        THEN \E v \in VersionsOf(cycles[c].id) :
               /\ cycles[c].settled = [code |-> CodeOf(v)]
               /\ (cycles[c].id \o DeclarationExtension) \in DOMAIN files
               /\ files[cycles[c].id \o DeclarationExtension] = DeclarationOf(v)
        ELSE /\ cycles[c].settled = Null
             /\ (cycles[c].id \o DeclarationExtension) \notin DOMAIN files

\* C19 witness: two cycles, for a.ftl and for b.ftl, have both settled; the
\* first read the edited a.ftl, the second the original b.ftl.
C19_Witness ==
  /\ DOMAIN cycles = {1, 2}
  /\ cycles[1].id = FileA /\ cycles[2].id = FileB
  /\ Settled(1) /\ Settled(2)
  /\ cycles[1].settled = [code |-> CodeOf(FtlVersions(FileA)[2])]
  /\ cycles[2].settled = [code |-> CodeOf(FtlVersions(FileB)[1])]
  /\ files[FileB \o DeclarationExtension] = DeclarationOf(FtlVersions(FileB)[1])

\* ------------------------------------------------------------ locale variant
\* The plugin's variant that addresses a resource as <file>.ftl?locale=<tag>.
LocaleCharacters ==
  {"a", "b", "c", "e", "f", "l", "n", "o", "t", "v", "S", "U", "-"}
LocaleQuery == <<"?", "l", "o", "c", "a", "l", "e", "=">>

\* FTL_FILE_REGEX = /\.ftl\?locale=[A-Za-z-]+$/
FTL_LOCALE_REGEX(path) ==
  LET prefix == FtlExtension \o LocaleQuery
  IN \E k \in 1..Len(path) :
       /\ k + Len(prefix) <= Len(path)
       /\ SubSeq(path, k, k + Len(prefix) - 1) = prefix
       /\ \A j \in (k + Len(prefix))..Len(path) : path[j] \in LocaleCharacters

\* String.prototype.split(separator) for a one-character separator.
RECURSIVE Split(_, _)
Split(s, separator) ==
  LET at == IndexOf(s, separator)
  IN IF at = -1 THEN <<s>>
     ELSE <<Slice(s, 0, at)>> \o Split(SliceFrom(s, at + 1), separator)

\* new URLSearchParams(queryString).get(name): the value of the first
\* name=value pair of that name, or null.
RECURSIVE FirstValue(_, _)
FirstValue(pairs, name) ==
  IF pairs = <<>> THEN Null
  ELSE LET pair == Head(pairs)
           at == IndexOf(pair, "=")
           key == IF at = -1 THEN pair ELSE Slice(pair, 0, at)
           value == IF at = -1 THEN <<>> ELSE SliceFrom(pair, at + 1)
       IN IF key = name THEN value ELSE FirstValue(Tail(pairs), name)
SearchParamsGet(queryString, name) ==
  FirstValue(SelectSeq(Split(queryString, "&"), LAMBDA pair : pair # <<>>), name)

\* The failures the variant throws.
SegmentsError ==
  [throws |-> "Error",
   message |-> "Invalid FTL file path, did you forget to add the ?locale=[locale] query parameter?"]
LocaleError ==
  [throws |-> "Error",
   message |-> "Failed to extract locale from FTL file path, did you forget to add the ?locale=[locale] query parameter?"]

\* transformFluentFile(fluent, file, locale) of the variant: the import,
\* the resource, a bundle of the locale, the registration.
TransformFluentFileForLocale(fluent, file, locale) ==
  [type |-> "SourceFile",
   statements |-> <<[import |-> "@fluent/bundle"],
                    [export |-> "resource", FluentResource |-> fluent],
                    [export |-> "bundle", FluentBundle |-> locale],
                    [call |-> "bundle.addResource"]>>]

\* The ids the host may ask for: a file, with or without a second question
\* mark in its name, of either extension, followed by a query.
LocaleRequestIds ==
  {base \o extension \o query :
     base \in {<<"a">>, <<"b">>, <<"a", "?", "v">>},
     extension \in {FtlExtension, <<".", "t", "s">>},
     query \in {<<>>,
                LocaleQuery \o <<"e", "n">>,
                LocaleQuery \o <<"e", "n", "-", "U", "S">>,
                LocaleQuery,
                LocaleQuery \o <<"e", "1">>,
                <<"?", "l", "a", "n", "g", "=", "e", "n">>,
                <<"?", "v", "=", "1", "&", "l", "o", "c", "a", "l", "e", "=", "e", "n">>}}

NewLocaleCycle(path) ==
  [id |-> path, pc |-> "start", filePath |-> Undefined, locale |-> Undefined,
   ftl |-> Undefined, settled |-> Pending]

localeOnly == UNCHANGED <<declarationVars, callVars, runtimeVars, pluginVars>>

\* transform, lines 12-14: the id does not match, return null.
LocaleSkip ==
  /\ localeCycle.pc = "start"
  /\ ~FTL_LOCALE_REGEX(localeCycle.id)
  /\ localeCycle' = [localeCycle EXCEPT !.pc = "done", !.settled = Null]
  /\ localeOnly

\* transform, lines 15-28: the two throws.
LocaleThrow ==
  /\ localeCycle.pc = "start"
  /\ FTL_LOCALE_REGEX(localeCycle.id)
  /\ LET segments == Split(localeCycle.id, "?")
     IN /\ \/ Len(segments) # 2
           \/ /\ Len(segments) = 2
              /\ SearchParamsGet(segments[2], <<"l", "o", "c", "a", "l", "e">>) = Null
        /\ localeCycle' = [localeCycle EXCEPT
             !.pc = "done",
             !.settled = IF Len(segments) # 2 THEN SegmentsError ELSE LocaleError]
  /\ localeOnly

\* transform, lines 15-30: the path and the locale, await fs.readFile(filePath).
LocaleRead ==
  /\ localeCycle.pc = "start"
  /\ FTL_LOCALE_REGEX(localeCycle.id)
  /\ LET segments == Split(localeCycle.id, "?")
     IN /\ Len(segments) = 2
        /\ SearchParamsGet(segments[2], <<"l", "o", "c", "a", "l", "e">>) # Null
        /\ localeCycle' = [localeCycle EXCEPT
             !.pc = "read",
             !.filePath = segments[1],
             !.locale = SearchParamsGet(segments[2], <<"l", "o", "c", "a", "l", "e">>),
             !.ftl = files[segments[1]]]
  /\ localeOnly

\* transform, lines 31-36: transform, print, return { code }.
LocaleReturn ==
  /\ localeCycle.pc = "read"
  /\ localeCycle' = [localeCycle EXCEPT
       !.pc = "done",
       !.settled = [code |-> PrintFile(TransformFluentFileForLocale(
                      localeCycle.ftl, localeCycle.filePath, localeCycle.locale))]]
  /\ localeOnly

NextLocale ==
  \/ LocaleSkip
  \/ LocaleThrow
  \/ LocaleRead
  \/ LocaleReturn

\* One request, the two .ftl files on disk at any of their versions.
InitLocale ==
  /\ \E path \in LocaleRequestIds : localeCycle = NewLocaleCycle(path)
  /\ \E a \in VersionsOf(FileA) : \E b \in VersionsOf(FileB) :
       files = [path \in {FileA, FileB} |-> IF path = FileA THEN a ELSE b]
  /\ cycles = Null
  /\ DeclarationIdle /\ CallIdle /\ RuntimeIdle

SpecLocale == InitLocale /\ [][NextLocale]_vars

\* A request for a Fluent resource: the id names a .ftl file, followed by
\* nothing or by a query. Its locale tag is the value of `locale` in that
\* query; it is malformed when the tag is missing, empty or holds a
\* character that no tag has.
FtlEnds(path) ==
  {k \in 1..Len(path) :
     /\ k + Len(FtlExtension) - 1 <= Len(path)
     /\ SubSeq(path, k, k + Len(FtlExtension) - 1) = FtlExtension
     /\ k + Len(FtlExtension) <= Len(path) => path[k + Len(FtlExtension)] = "?"}
IsFtlRequest(path) == FtlEnds(path) # {}
LocaleTag(path) ==
  LET k == CHOOSE k \in FtlEnds(path) : TRUE
  IN SearchParamsGet(SubSeq(path, k + Len(FtlExtension) + 1, Len(path)),
                     <<"l", "o", "c", "a", "l", "e">>)
Malformed(path) ==
  /\ IsFtlRequest(path)
  /\ \/ LocaleTag(path) = Null
     \/ LocaleTag(path) = <<>>
     \/ \E j \in 1..Len(LocaleTag(path)) : LocaleTag(path)[j] \notin LocaleCharacters
Rejected == localeCycle.settled \in {SegmentsError, LocaleError}

\* C20: a request for a .ftl resource whose locale tag is missing or
\* unparseable settles with a thrown, descriptive error, and the file has
\* not been read; it is not skipped with null and not transformed.
C20_MalformedRequestIsRejected ==
  (localeCycle.pc = "done" /\ Malformed(localeCycle.id)) =>
    /\ Rejected
    /\ localeCycle.ftl = Undefined

\* C20 witness: the request for "a.ftl", without any locale, has settled
\* with null: the plugin skipped it.
C20_Witness ==
  /\ localeCycle.pc = "done"
  /\ localeCycle.id = FileA
  /\ Malformed(localeCycle.id)
  /\ localeCycle.settled = Null

\* ------------------------------------------------- colliding names
\* The positions of a name among the keys of the emitted index.
KeysNamed(name) ==
  {i \in 1..Len(declaration.ResourceMessageArgs) :
     declaration.ResourceMessageArgs[i].name.text = name}
\* The positions of a name among the addressable entries of the resource.
EntriesNamed(name) ==
  {i \in 1..Len(AddressableEntries(resource.body)) :
     AddressableEntries(resource.body)[i].name = name}
Max(S) == CHOOSE x \in S : \A y \in S : y <= x

\* C21: every addressable name of the resource is held once by the emitted
\* index, bound to the shape of the entry of that name that is declared
\* last.
C21_NameHeldOnce ==
  Emitted =>
    LET entries == AddressableEntries(resource.body)
        T == declaration.ResourceMessageArgs
    IN \A i \in 1..Len(entries) :
         /\ Cardinality(KeysNamed(entries[i].name)) = 1
         /\ \A k \in KeysNamed(entries[i].name) :
              T[k].type
                = RenderedShape(Infer(entries[Max(EntriesNamed(entries[i].name))].pattern))

\* C21 witness: two messages of one name, each with a value, are emitted as
\* two keys of that name, the first with the shape of the first message.
C21_Witness ==
  /\ Emitted
  /\ Len(resource.body) = 2
  /\ resource.body[1].type = "Message"
  /\ resource.body[2].type = "Message"
  /\ resource.body[1].id.name = resource.body[2].id.name
  /\ resource.body[1].value = LiteralOnly
  /\ resource.body[2].value = PlainN
  /\ resource.body[1].attributes = <<>>
  /\ resource.body[2].attributes = <<>>
  /\ Len(declaration.ResourceMessageArgs) = 2
  /\ declaration.ResourceMessageArgs[1].name.text
       = declaration.ResourceMessageArgs[2].name.text
  /\ declaration.ResourceMessageArgs[1].type = Never
  /\ declaration.ResourceMessageArgs[2].type.kind = "TypeLiteral"

\* ------------------------------------------------- selectors that are calls
\* Positions in a pre-order listing of the selects whose selector is not a
\* variable reference.
CallSelects(pre) ==
  {i \in 1..Len(pre) :
     pre[i].type = "SelectExpression" /\ pre[i].selector.type # "VariableReference"}

\* C22: for a select whose selector is not a variable reference, the
\* variables inside the selector and inside every variant are in the shape,
\* and the select records no literal union: a variable of its selector is
\* FluentVariable unless a select of the pattern has that variable itself
\* as its selector, and then it has the union of the first such select.
C22_CallSelectorRecordsNoUnion ==
  TraversalDone =>
    LET pre == PreOrder(CurrentPattern)
    IN \A s \in CallSelects(pre) :
         /\ VariablesIn(pre[s].selector) \subseteq MapKeys(variables)
         /\ \A i \in 1..Len(pre[s].variants) :
              VariablesIn(pre[s].variants[i].value) \subseteq MapKeys(variables)
         /\ \A name \in VariablesIn(pre[s].selector) :
              IF SelectsOn(pre, name) = {}
              THEN MapGet(variables, name) = TypeReferenceNode("FluentVariable")
              ELSE IsLiteralUnionOf(MapGet(variables, name),
                                    pre[Min(SelectsOn(pre, name))])

\* C22 witness: the pattern { NUMBER($n) -> *[one] { $x } } has been
\* traversed; $n and $x are both FluentVariable.
C22_Witness ==
  /\ TraversalDone
  /\ Len(CurrentPattern.elements) = 1
  /\ CurrentPattern.elements[1].type = "Placeable"
  /\ CurrentPattern.elements[1].expression.type = "SelectExpression"
  /\ CurrentPattern.elements[1].expression.selector = Number(<<"n">>)
  /\ Len(CurrentPattern.elements[1].expression.variants) = 1
  /\ CurrentPattern.elements[1].expression.variants[1].value
       = Pattern(<<Placeable(VariableReference(<<"x">>))>>)
  /\ variables = <<[key |-> <<"n">>, value |-> TypeReferenceNode("FluentVariable")],
                   [key |-> <<"x">>, value |-> TypeReferenceNode("FluentVariable")]>>

\* ------------------------------------------------- other expressions
\* The visitor is about to visit a node that is neither a variable
\* reference nor a select expression.
AtOtherKind ==
  /\ pc = "visit"
  /\ stack # <<>>
  /\ Head(stack).type \notin {"VariableReference", "SelectExpression"}

\* C23: the visit of a node of any kind other than variable reference and
\* select expression can always be taken, and it leaves the shape and the
\* visitor's metadata as they were: it replaces the node by its children.
C23_OtherKindsAddNothing ==
  /\ [](AtOtherKind => ENABLED StepGeneric)
  /\ [][AtOtherKind =>
          /\ variables' = variables
          /\ metadata' = metadata
          /\ stack' = GenericChildren(Head(stack)) \o Tail(stack)]_vars

\* C23 witness: the pattern with a placeable of every other kind has been
\* traversed; its shape holds $x of the nested placeable and $n of the
\* call's argument, and nothing else.
C23_Witness ==
  /\ TraversalDone
  /\ CurrentPattern = Pattern(EveryKind)
  /\ variables = <<[key |-> <<"x">>, value |-> TypeReferenceNode("FluentVariable")],
                   [key |-> <<"n">>, value |-> TypeReferenceNode("FluentVariable")]>>

\* ------------------------------------------------- order of the fields
\* The position in a pre-order listing of the first reference to `name`; a
\* select's selector precedes the patterns of its variants.
FirstDiscovery(pre, name) == Min(ReferencesTo(pre, name))

\* C24: the fields of the rendered shape are in the order of their
\* variables' first discovery in the pattern, each variable once; a variable
\* that a select narrows after a plain reference keeps the plain
\* reference's position.
C24_FieldsInDiscoveryOrder ==
  TraversalDone =>
    LET pre == PreOrder(CurrentPattern)
        members == IF variables = <<>> THEN <<>>
                   ELSE OverloadOf(CurrentName, variables).type.members
    IN /\ Len(members) = Cardinality(VariablesIn(CurrentPattern))
       /\ \A i \in 1..Len(members) : \A j \in 1..Len(members) :
            i < j => FirstDiscovery(pre, members[i].name.text)
                       < FirstDiscovery(pre, members[j].name.text)

\* C24 witness: { $x } { $n } { $x -> *[one] a }: $x is narrowed by the
\* select after $n was discovered, and is still the first field.
C24_Witness ==
  /\ TraversalDone
  /\ Len(CurrentPattern.elements) = 3
  /\ CurrentPattern.elements[1] = Placeable(VariableReference(<<"x">>))
  /\ CurrentPattern.elements[2] = Placeable(VariableReference(<<"n">>))
  /\ CurrentPattern.elements[3].type = "Placeable"
  /\ IsSelectOn(CurrentPattern.elements[3].expression, <<"x">>)
  /\ Len(variables) = 2
  /\ variables[1].key = <<"x">>
  /\ variables[1].value.kind = "UnionType"
  /\ variables[2].key = <<"n">>
  /\ OverloadOf(CurrentName, variables).type.members[1].name.text = <<"x">>

\* ------------------------------------------------- repeated variant keys
\* The select that narrows `name`: the first select of the pattern whose
\* selector is `name`.
NarrowingSelect(pre, name) == pre[Min(SelectsOn(pre, name))]
NarrowedVariables(pre) ==
  {name \in VariablesIn(CurrentPattern) : SelectsOn(pre, name) # {}}
\* How often a literal is a member of a union, and how often a key is
\* declared by the variants of a select.
MemberCount(union, literal) ==
  Cardinality({i \in 1..Len(union.types) : union.types[i].literal = literal})
VariantCount(select, key) ==
  Cardinality({i \in 1..Len(select.variants) : select.variants[i].key = key})

\* C25 as stated: the union recorded for a narrowed variable holds each
\* distinct variant key of its select exactly once.
C25_EachKeyOnce ==
  TraversalDone =>
    LET pre == PreOrder(CurrentPattern)
    IN \A name \in NarrowedVariables(pre) :
         LET select == NarrowingSelect(pre, name)
             union == MapGet(variables, name)
         IN \A i \in 1..Len(select.variants) :
              MemberCount(union, KeyLiteral(select.variants[i].key)) = 1

\* C25: the union recorded for a narrowed variable holds the keys of its
\* select and nothing else, each key as often as variants of the select
\* declare it: once when one variant does, twice when two variants do.
C25_EachKeyOncePerVariant ==
  TraversalDone =>
    LET pre == PreOrder(CurrentPattern)
    IN \A name \in NarrowedVariables(pre) :
         LET select == NarrowingSelect(pre, name)
             union == MapGet(variables, name)
         IN /\ union.kind = "UnionType"
            /\ \A i \in 1..Len(union.types) :
                 \E j \in 1..Len(select.variants) :
                   union.types[i].literal = KeyLiteral(select.variants[j].key)
            /\ \A i \in 1..Len(select.variants) :
                 MemberCount(union, KeyLiteral(select.variants[i].key))
                   = VariantCount(select, select.variants[i].key)

\* C25 witness: { $n -> [one] a *[one] b } has been traversed and the union
\* of $n is "one" | "one".
C25_Witness ==
  /\ TraversalDone
  /\ Len(CurrentPattern.elements) = 1
  /\ CurrentPattern.elements[1].type = "Placeable"
  /\ IsSelectOn(CurrentPattern.elements[1].expression, <<"n">>)
  /\ Len(CurrentPattern.elements[1].expression.variants) = 2
  /\ CurrentPattern.elements[1].expression.variants[1].key = Identifier(<<"o", "n", "e">>)
  /\ CurrentPattern.elements[1].expression.variants[2].key = Identifier(<<"o", "n", "e">>)
  /\ MapGet(variables, <<"n">>)
       = UnionTypeNode(<<LiteralTypeNode(StringLiteral(<<"o", "n", "e">>)),
                         LiteralTypeNode(StringLiteral(<<"o", "n", "e">>))>>)

\* ------------------------------------------------- the generated formatMessage
\* The nodes ts.factory builds in createFormatMessageExport (string and
\* numeric literals are StringLiteral and NumericLiteral above).
CreateIdentifier(text) == [kind |-> "Identifier", text |-> text]
CreatePropertyAccessExpression(expression, name) ==
  [kind |-> "PropertyAccessExpression", expression |-> expression, name |-> name]
CreateElementAccessExpression(expression, argument) ==
  [kind |-> "ElementAccessExpression", expression |-> expression,
   argumentExpression |-> argument]
CreateCallExpression(expression, arguments) ==
  [kind |-> "CallExpression", expression |-> expression, arguments |-> arguments]
CreateBinaryExpression(left, operator, right) ==
  [kind |-> "BinaryExpression", left |-> left, operator |-> operator, right |-> right]
CreateStrictEquality(left, right) == CreateBinaryExpression(left, "===", right)
CreatePrefixMinus(operand) == [kind |-> "PrefixUnaryExpression", operand |-> operand]
CreateConditionalExpression(condition, whenTrue, whenFalse) ==
  [kind |-> "ConditionalExpression", condition |-> condition,
   whenTrue |-> whenTrue, whenFalse |-> whenFalse]
CreateObjectLiteralExpression == [kind |-> "ObjectLiteralExpression"]
CreateNull == [kind |-> "NullKeyword"]
CreateVariableStatement(name, initializer) ==
  [kind |-> "VariableStatement", name |-> name, initializer |-> initializer]
CreateIfStatement(expression, thenStatement) ==
  [kind |-> "IfStatement", expression |-> expression, thenStatement |-> thenStatement]
CreateReturnStatement(expression) ==
  [kind |-> "ReturnStatement", expression |-> expression]
CreateFunctionDeclaration(name, parameters, body) ==
  [kind |-> "FunctionDeclaration", modifiers |-> <<"export">>, name |-> name,
   parameters |-> parameters, body |-> body]

bundleIdentifier == CreateIdentifier("bundle")
idIdentifier == CreateIdentifier("id")
argsIdentifier == CreateIdentifier("args")
errorIdentifier == CreateIdentifier("error")
attrIndexIdentifier == CreateIdentifier("attrIndex")
isAttributeIdentifier == CreateIdentifier("isAttribute")
messageIdIdentifier == CreateIdentifier("messageId")
messageIdentifier == CreateIdentifier("message")
patternIdentifier == CreateIdentifier("pattern")

\* const attrIndex = id.indexOf('.');
attrIndexVariableStatement ==
  CreateVariableStatement("attrIndex",
    CreateCallExpression(CreatePropertyAccessExpression(idIdentifier, "indexOf"),
                         <<StringLiteral(".")>>))
\* const isAttribute = attrIndex > -1;
isAttributeVariableStatement ==
  CreateVariableStatement("isAttribute",
    CreateBinaryExpression(attrIndexIdentifier, ">",
                           CreatePrefixMinus(NumericLiteral(<<"1">>))))
\* const messageId = isAttribute ? id.slice(0, attrIndex) : id;
messageIdVariableStatement ==
  CreateVariableStatement("messageId",
    CreateConditionalExpression(isAttributeIdentifier,
      CreateCallExpression(CreatePropertyAccessExpression(idIdentifier, "slice"),
                           <<NumericLiteral(<<"0">>), attrIndexIdentifier>>),
      idIdentifier))
\* Mutant: as the doc comment of createFormatMessageExport shows the
\* function, bundle.getMessage is given the whole id.
messageVariableStatement_WholeId ==
  CreateVariableStatement("message",
    CreateCallExpression(CreatePropertyAccessExpression(bundleIdentifier, "getMessage"),
                         <<idIdentifier>>))
\* const message = bundle.getMessage(messageId);
messageVariableStatement ==
  CreateVariableStatement("message",
    CreateCallExpression(CreatePropertyAccessExpression(bundleIdentifier, "getMessage"),
                         <<messageIdIdentifier>>))
\* const pattern = isAttribute
\*   ? message.attributes[id.slice(attrIndex + 1)] : message.value;
patternVariableStatement ==
  CreateVariableStatement("pattern",
    CreateConditionalExpression(isAttributeIdentifier,
      CreateElementAccessExpression(
        CreatePropertyAccessExpression(messageIdentifier, "attributes"),
        CreateCallExpression(CreatePropertyAccessExpression(idIdentifier, "slice"),
          <<CreateBinaryExpression(attrIndexIdentifier, "+", NumericLiteral(<<"1">>))>>)),
      CreatePropertyAccessExpression(messageIdentifier, "value")))
\* if (args === null || Array.isArray(args))
\*   return bundle.formatPattern(pattern, {}, args);
ifStatement ==
  CreateIfStatement(
    CreateBinaryExpression(
      CreateStrictEquality(argsIdentifier, CreateNull), "||",
      CreateCallExpression(
        CreatePropertyAccessExpression(CreateIdentifier("Array"), "isArray"),
        <<argsIdentifier>>)),
    CreateReturnStatement(
      CreateCallExpression(
        CreatePropertyAccessExpression(bundleIdentifier, "formatPattern"),
        <<patternIdentifier, CreateObjectLiteralExpression, argsIdentifier>>)))
\* return bundle.formatPattern(pattern, args, error);
returnStatement ==
  CreateReturnStatement(
    CreateCallExpression(
      CreatePropertyAccessExpression(bundleIdentifier, "formatPattern"),
      <<patternIdentifier, argsIdentifier, errorIdentifier>>))

\* createFormatMessageExport(): the function declaration it returns.
CreateFormatMessageExport ==
  CreateFunctionDeclaration("formatMessage",
    <<"bundle", "id", "args", "error">>,
    <<attrIndexVariableStatement,
      isAttributeVariableStatement,
      messageIdVariableStatement,
      messageVariableStatement,
      patternVariableStatement,
      ifStatement,
      returnStatement>>)

\* The evaluation of the printed function by the JavaScript engine.  A
\* completion is normal with a value, or a throw.
Normal(value) == [threw |-> FALSE, value |-> value]
Throw(value) == [threw |-> TRUE, value |-> value]
DecimalDigits == <<"0", "1", "2", "3", "4", "5", "6", "7", "8", "9">>
\* The number a one-digit numeric literal denotes.
NumberOf(text) == (CHOOSE d \in 1..10 : DecimalDigits[d] = text[1]) - 1
\* The scope with one more const.
Declare(scope, name, value) ==
  [n \in DOMAIN scope \cup {name} |-> IF n = name THEN value ELSE scope[n]]

\* A method call on an evaluated receiver with evaluated arguments.
CallMethod(receiver, method, arguments) ==
  CASE method = "indexOf" -> IndexOf(receiver, arguments[1])
    [] method = "slice" ->
         IF Len(arguments) = 2 THEN Slice(receiver, arguments[1], arguments[2])
         ELSE SliceFrom(receiver, arguments[1])
    [] method = "getMessage" -> GetMessage(receiver, arguments[1])
    [] method = "formatPattern" ->
         FormatPattern(arguments[1], arguments[2], arguments[3])
    [] method = "isArray" -> IsArrayValue(arguments[1])

RECURSIVE Evaluate(_, _)
RECURSIVE EvaluateAll(_, _)
\* The completions of a list of argument expressions, left to right.
EvaluateAll(nodes, scope) ==
  [i \in 1..Len(nodes) |-> Evaluate(nodes[i], scope)]
Evaluate(node, scope) ==
  CASE node.kind = "Identifier" -> Normal(scope[node.text])
    [] node.kind = "StringLiteral" -> Normal(node.text)
    [] node.kind = "NumericLiteral" -> Normal(NumberOf(node.text))
    [] node.kind = "NullKeyword" -> Normal(Null)
    [] node.kind = "ObjectLiteralExpression" -> Normal(EmptyObject)
    [] node.kind = "PrefixUnaryExpression" ->
         LET operand == Evaluate(node.operand, scope)
         IN IF operand.threw THEN operand ELSE Normal(-operand.value)
    [] node.kind = "BinaryExpression" ->
         LET left == Evaluate(node.left, scope)
             right == Evaluate(node.right, scope)
         IN IF left.threw THEN left
            ELSE IF node.operator = "||" THEN (IF left.value THEN left ELSE right)
            ELSE IF right.threw THEN right
            ELSE IF node.operator = ">" THEN Normal(left.value > right.value)
            ELSE IF node.operator = "+" THEN Normal(left.value + right.value)
            ELSE Normal(left.value = right.value)
    [] node.kind = "ConditionalExpression" ->
         LET condition == Evaluate(node.condition, scope)
         IN IF condition.threw THEN condition
            ELSE IF condition.value THEN Evaluate(node.whenTrue, scope)
            ELSE Evaluate(node.whenFalse, scope)
    [] node.kind = "PropertyAccessExpression" ->
         LET object == Evaluate(node.expression, scope)
         IN IF object.threw THEN object
            ELSE IF object.value = Undefined THEN Throw(TypeError)
            ELSE Normal(object.value[node.name])
    [] node.kind = "ElementAccessExpression" ->
         LET object == Evaluate(node.expression, scope)
             argument == Evaluate(node.argumentExpression, scope)
         IN IF object.threw THEN object
            ELSE IF argument.threw THEN argument
            ELSE Normal(Property(object.value, argument.value))
    [] node.kind = "CallExpression" ->
         LET receiver == Evaluate(node.expression.expression, scope)
             arguments == EvaluateAll(node.arguments, scope)
         IN IF receiver.threw THEN receiver
            ELSE IF \E i \in 1..Len(arguments) : arguments[i].threw
            THEN arguments[CHOOSE i \in 1..Len(arguments) :
                             arguments[i].threw
                               /\ \A j \in 1..(i - 1) : ~arguments[j].threw]
            ELSE Normal(CallMethod(receiver.value, node.expression.name,
                                   [i \in 1..Len(arguments) |-> arguments[i].value]))

\* The statements of a block, in order, up to the first return or throw.
RECURSIVE Execute(_, _)
Execute(statements, scope) ==
  IF statements = <<>> THEN Normal(Undefined)
  ELSE LET statement == Head(statements)
       IN CASE statement.kind = "VariableStatement" ->
                 LET initializer == Evaluate(statement.initializer, scope)
                 IN IF initializer.threw THEN initializer
                    ELSE Execute(Tail(statements),
                                 Declare(scope, statement.name, initializer.value))
            [] statement.kind = "IfStatement" ->
                 LET expression == Evaluate(statement.expression, scope)
                 IN IF expression.threw THEN expression
                    ELSE IF expression.value
                    THEN Execute(<<statement.thenStatement>>, scope)
                    ELSE Execute(Tail(statements), scope)
            [] statement.kind = "ReturnStatement" ->
                 Evaluate(statement.expression, scope)

\* A call of a function declaration: the parameters bound to the arguments,
\* the global Array in scope.
Invoke(function, arguments) ==
  Execute(function.body,
          [n \in {function.parameters[i] : i \in 1..Len(function.parameters)}
                   \cup {"Array"} |->
             IF n = "Array" THEN [kind |-> "global", name |-> "Array"]
             ELSE arguments[CHOOSE i \in 1..Len(function.parameters) :
                              function.parameters[i] = n]])

PassesErrorList == Returned /\ returned # TypeError /\ IsArrayValue(error)

\* C29 as stated: an error list passed as the fourth argument is the errors
\* argument of formatPattern, whatever the third argument is.
C29_FourthArgumentAlwaysPassedOn ==
  PassesErrorList => returned.errors = error

\* C29: an error list passed as the fourth argument is the errors argument
\* of formatPattern exactly when the third argument is neither null nor an
\* array; with a third argument that is null or an array, formatPattern gets
\* the third argument as its errors and an empty arguments object, and the
\* fourth argument is not used.
C29_FourthArgumentUsedUnlessThirdIsErrors ==
  PassesErrorList =>
    IF NullOrArray(args)
    THEN returned = FormatPattern(returned.pattern, EmptyObject, args)
    ELSE returned = FormatPattern(returned.pattern, args, error)

\* C29 witness: formatMessage(bundle, 'm', null, errors) has returned
\* formatPattern(pattern, {}, null): the caller's list is not passed on.
C29_Witness ==
  /\ PassesErrorList
  /\ id = <<"m">>
  /\ args = Null
  /\ error = CollectedErrors
  /\ returned = FormatPattern(RuntimePattern(<<"m">>, Null), EmptyObject, Null)

\* ------------------------------------------------- overlapping cycles
\* Cycle d read the file after cycle c did, and the author's edit lies
\* between the two reads: c holds the first version, d the second.
ReadLater(c, d) ==
  /\ c # d
  /\ cycles[c].id = cycles[d].id
  /\ FTL_FILE_REGEX(cycles[c].id)
  /\ cycles[c].ftl = FtlVersions(cycles[c].id)[1]
  /\ cycles[d].ftl = FtlVersions(cycles[d].id)[2]

\* C30: once two overlapping cycles for one .ftl id have both resolved, the
\* content having changed between their reads, <id>.d.ts holds the
\* declaration of the content read last, the one that matches the code the
\* later-reading cycle returned.
C30_DeclarationOfLastRead ==
  \A c, d \in DOMAIN cycles :
    (ReadLater(c, d) /\ Settled(c) /\ Settled(d)) =>
      /\ cycles[d].settled = [code |-> CodeOf(cycles[d].ftl)]
      /\ files[cycles[d].id \o DeclarationExtension] = DeclarationOf(cycles[d].ftl)

\* C30 witness: two cycles for a.ftl have resolved, the second having read
\* the edited file; a.ftl.d.ts holds the declaration of the first version,
\* which the first cycle wrote last.
C30_Witness ==
  /\ DOMAIN cycles = {1, 2}
  /\ ReadLater(1, 2)
  /\ cycles[1].id = FileA
  /\ Settled(1) /\ Settled(2)
  /\ cycles[2].settled = [code |-> CodeOf(FtlVersions(FileA)[2])]
  /\ files[FileA \o DeclarationExtension] = DeclarationOf(FtlVersions(FileA)[1])
  /\ files[FileA] = FtlVersions(FileA)[2]
  /\ DeclarationOf(FtlVersions(FileA)[1]) # DeclarationOf(FtlVersions(FileA)[2])

\* ------------------------------------------------- declaration and bundle
\* The bundle a caller builds from the resource the module exports:
\* new FluentBundle(...).addResource(resource).  The runtime parser compiles
\* each message to { id, value, attributes }, attributes being an object
\* keyed by name (a repeated attribute name overwrites); addResource keeps
\* the first message of a name (allowOverrides is false) and holds terms
\* apart from messages.  A compiled pattern remembers the addressable entry
\* it was compiled from.
CompiledPattern(entry, source) ==
  [type |-> "Pattern", entry |-> entry, elements |-> source.elements]
CompiledMessage(body, b) ==
  LET offset == Len(AddressableEntries(SubSeq(body, 1, b - 1)))
      own == IF body[b].value # Null THEN 1 ELSE 0
      attributes == body[b].attributes
      last(a) == Max({j \in 1..Len(attributes) : attributes[j].id.name = a})
  IN [id |-> body[b].id.name,
      value |-> IF body[b].value # Null
                THEN CompiledPattern(offset + 1, body[b].value)
                ELSE Null,
      attributes |->
        [a \in {attributes[j].id.name : j \in 1..Len(attributes)} |->
           CompiledPattern(offset + own + last(a), attributes[last(a)].value)]]
BundleOf(res) ==
  LET body == res.body
      named(name) == {b \in 1..Len(body) :
                        body[b].type = "Message" /\ body[b].id.name = name}
  IN [name \in {body[b].id.name :
                  b \in {b \in 1..Len(body) : body[b].type = "Message"}} |->
        CompiledMessage(body, Min(named(name)))]

\* The variables of the caller's arguments that formatPattern may read
\* while it resolves a node: a message reference is resolved in the bundle
\* with the same arguments, a pattern that is being resolved already is a
\* cyclic reference and is not entered again, a term does not see the
\* caller's arguments, and any variant of a select may be the one chosen.
RECURSIVE VariablesRead(_, _, _)
VariablesRead(b, node, dirty) ==
  CASE node.type = "Pattern" ->
         IF node \in dirty THEN {}
         ELSE UNION {VariablesRead(b, node.elements[i], dirty \cup {node}) :
                       i \in 1..Len(node.elements)}
    [] node.type = "Placeable" -> VariablesRead(b, node.expression, dirty)
    [] node.type = "VariableReference" -> {node.id.name}
    [] node.type = "MessageReference" ->
         LET referenced == GetMessage(b, node.id.name)
         IN IF referenced = Undefined THEN {}
            ELSE IF referenced.value = Null THEN {}
            ELSE VariablesRead(b, referenced.value, dirty)
    [] node.type = "FunctionReference" ->
         UNION {VariablesRead(b, node.arguments.positional[i], dirty) :
                  i \in 1..Len(node.arguments.positional)}
    [] node.type = "SelectExpression" ->
         VariablesRead(b, node.selector, dirty)
           \cup UNION {VariablesRead(b, node.variants[i].value, dirty) :
                         i \in 1..Len(node.variants)}
    [] OTHER -> {}

\* Resources with colliding names and with references between entries.
ReferenceTo(name) == Pattern(<<Placeable(MessageReference(name))>>)
AddressResources ==
  {Resource(<<Message(<<"m">>, SelectN, <<Attribute(<<"c">>, LiteralOnly)>>),
              Message(<<"g">>, Null, <<Attribute(<<"c">>, PlainN)>>)>>),
   Resource(<<Message(<<"m">>, LiteralOnly, <<>>), Message(<<"m">>, PlainN, <<>>)>>),
   Resource(<<Message(<<"m">>, Null, <<Attribute(<<"c">>, LiteralOnly)>>),
              Message(<<"m">>, SelectN, <<>>)>>),
   Resource(<<Message(<<"m">>, Null, <<Attribute(<<"c">>, LiteralOnly),
                                       Attribute(<<"c">>, PlainN)>>)>>),
   Resource(<<Message(<<"m">>, ReferenceTo(<<"g">>), <<>>),
              Message(<<"g">>, PlainN, <<>>)>>),
   Resource(<<Message(<<"m">>, ReferenceTo(<<"m">>), <<>>)>>),
   Resource(<<Term(<<"t">>, PlainN),
              Message(<<"m">>, Pattern(<<Placeable(TermReference(<<"t">>))>>), <<>>)>>)}

\* No call of formatMessage has been made yet.
NotCalled == [kind |-> "not called"]

\* The caller adds the exported resource to a bundle and calls formatMessage
\* with a key of the emitted index, or with the id of no message.
CallFormatMessage(k, a) ==
  /\ pc = "done"
  /\ returned = NotCalled
  /\ k \in {declaration.ResourceMessageArgs[i].name.text :
              i \in 1..Len(declaration.ResourceMessageArgs)} \cup {<<"h">>}
  /\ bundle' = BundleOf(resource)
  /\ id' = k
  /\ args' = a
  /\ error' = Undefined
  /\ returned' = Null
  /\ UNCHANGED <<declarationVars, callVars, pluginVars, localeCycle>>

AddressIds ==
  {m \o suffix : m \in MessageNames \cup {<<"h">>},
                 suffix \in {<<>>} \cup {<<".">> \o a : a \in AttributeNames}}

NextAddress ==
  \/ Next
  \/ \E k \in AddressIds : \E a \in {EmptyObject, Null} : CallFormatMessage(k, a)
  \/ NextRuntime

InitAddress ==
  /\ resource \in AddressResources
  /\ pc = IF Len(Messages(resource)) = 0 THEN "emit" ELSE "loop"
  /\ mi = 1
  /\ ai = 0
  /\ variables = <<>>
  /\ metadata = <<>>
  /\ stack = <<>>
  /\ overloads = <<>>
  /\ attributeOverloads = <<>>
  /\ declaration = Null
  /\ bundle = Null /\ id = Null /\ args = Null /\ error = Null
  /\ returned = NotCalled
  /\ CallIdle /\ PluginIdle /\ LocaleIdle

SpecAddress == InitAddress /\ [][NextAddress]_vars

\* formatMessage has returned or thrown for a key of the emitted index; the
\* positions of that key in the index.
KeyReturned == returned # Null /\ returned # NotCalled /\ pc = "done"
PositionsOf(k) ==
  {i \in 1..Len(declaration.ResourceMessageArgs) :
     declaration.ResourceMessageArgs[i].name.text = k}

\* C27: for every key of the emitted index, formatMessage on a bundle that
\* holds the resource does not throw and formats the pattern of the very
\* entry that produced the key.
C27_KeyResolvesToItsEntry ==
  KeyReturned =>
    \A i \in PositionsOf(id) :
      /\ returned # TypeError
      /\ returned.pattern
           = CompiledPattern(i, AddressableEntries(resource.body)[i].pattern)

\* C27 witness: the resource holds `m` without a value and then `m` with a
\* value; the index has the key "m" from the second message, and
\* formatMessage(bundle, 'm', {}) formats the null value of the first.
C27_Witness ==
  /\ KeyReturned
  /\ Len(resource.body) = 2
  /\ resource.body[1] = Message(<<"m">>, Null, <<Attribute(<<"c">>, LiteralOnly)>>)
  /\ resource.body[2] = Message(<<"m">>, SelectN, <<>>)
  /\ id = <<"m">>
  /\ PositionsOf(id) = {2}
  /\ returned = FormatPattern(Null, EmptyObject, Undefined)

\* The names of the fields of a rendered shape.
FieldsOf(type) ==
  IF type.kind = "TypeLiteral"
  THEN {type.members[j].name.text : j \in 1..Len(type.members)}
  ELSE {}

\* C28: every variable formatPattern may read while it formats the pattern
\* of an entry, those of messages it references included, is a field of
\* the shape the index binds to that entry.
C28_ShapeCoversReads ==
  (KeyReturned /\ returned # TypeError) =>
    LET formatted == returned.pattern
    IN (formatted # Null /\ formatted # Undefined) =>
         VariablesRead(bundle, formatted, {})
           \subseteq FieldsOf(declaration.ResourceMessageArgs[formatted.entry].type)

\* C28 witness: m = { g } and g = { $n }: the index binds `never` to "m",
\* and formatMessage(bundle, 'm', {}) formats a pattern that reads $n.
C28_Witness ==
  /\ KeyReturned
  /\ resource = Resource(<<Message(<<"m">>, ReferenceTo(<<"g">>), <<>>),
                           Message(<<"g">>, PlainN, <<>>)>>)
  /\ id = <<"m">>
  /\ returned # TypeError
  /\ returned.pattern = CompiledPattern(1, ReferenceTo(<<"g">>))
  /\ declaration.ResourceMessageArgs[1].type = Never
  /\ VariablesRead(bundle, returned.pattern, {}) = {<<"n">>}

====
